---- MODULE Spec2Model ----
(***************************************************************************)
(* Scoring-and-alerting engine of the repository:                          *)
(*   - src/src/email_analyzer.py    EmailAnalyzer (text preprocessing)      *)
(*   - src/src/urgency_detector.py  UrgencyDetector (keyword scoring)       *)
(*   - src/src/alert_system.py      SentimentAlertSystem (alert scans)      *)
(*   - src/main.py                  save_results (ranking)                  *)
(*                                                                         *)
(* A Python str is a sequence of one-character strings.  A float score is  *)
(* an integer number of hundredths; ratios and means are compared exactly, *)
(* by cross-multiplication.                                                *)
(***************************************************************************)
EXTENDS Integers, Sequences, FiniteSets, TLC

VARIABLES
    urgency_keywords,   \* UrgencyDetector.urgency_keywords: the category tables, in dict order
    time_keywords,      \* UrgencyDetector.time_keywords
    action_keywords,    \* UrgencyDetector.action_keywords
    thresholds,         \* UrgencyDetector.thresholds
    hashseed,           \* the interpreter's string-hash seed: fixes the iteration order of a set of str
    config,             \* SentimentAlertSystem.config
    alerts,             \* SentimentAlertSystem.alerts
    df,                 \* the caller's batch handed to the alert system
    results_df,         \* the batch of analysed emails handed to save_results
    call,               \* the operation last called, with its arguments
    ret                 \* what that operation returned

vars == << urgency_keywords, time_keywords, action_keywords, thresholds, hashseed,
           config, alerts, df, results_df, call, ret >>

(***************************************************************************)
(* Generic helpers                                                         *)
(***************************************************************************)
Min(a, b) == IF a <= b THEN a ELSE b

Range(s) == { s[i] : i \in 1..Len(s) }

Reverse(s) == [ i \in 1..Len(s) |-> s[Len(s) + 1 - i] ]

RotateLeft(s) == IF s = << >> THEN s ELSE Tail(s) \o << Head(s) >>

RECURSIVE SumSeq(_)
\* the sum of a sequence of integers
SumSeq(s) == IF s = << >> THEN 0 ELSE Head(s) + SumSeq(Tail(s))

RECURSIVE Concat(_)
Concat(ss) == IF ss = << >> THEN << >> ELSE Head(ss) \o Concat(Tail(ss))

RECURSIVE SeqsUpTo(_, _)
\* every sequence over S of length 0..n
SeqsUpTo(S, n) ==
    IF n = 0 THEN { << >> }
    ELSE LET shorter == SeqsUpTo(S, n - 1)
         IN  shorter \cup { Append(s, x) : s \in shorter, x \in S }

(***************************************************************************)
(* src/src/config.py                                                       *)
(***************************************************************************)
URGENCY_KEYWORDS ==
  <<
    [category |-> "critical", keywords_dict |-> <<
        [kw |-> <<"u","r","g","e","n","t">>, w |-> 15],
        [kw |-> <<"a","s","a","p">>, w |-> 15],
        [kw |-> <<"i","m","m","e","d","i","a","t","e","l","y">>, w |-> 15],
        [kw |-> <<"e","m","e","r","g","e","n","c","y">>, w |-> 15],
        [kw |-> <<"c","r","i","t","i","c","a","l">>, w |-> 15],
        [kw |-> <<"n","o","w">>, w |-> 15] >>],
    [category |-> "high", keywords_dict |-> <<
        [kw |-> <<"s","o","o","n">>, w |-> 12],
        [kw |-> <<"q","u","i","c","k","l","y">>, w |-> 12],
        [kw |-> <<"t","i","m","e","-","s","e","n","s","i","t","i","v","e">>, w |-> 12],
        [kw |-> <<"d","e","a","d","l","i","n","e">>, w |-> 12],
        [kw |-> <<"u","r","g","e","n","t"," ","n","e","e","d">>, w |-> 12],
        [kw |-> <<"e","x","p","i","r","e">>, w |-> 12],
        [kw |-> <<"e","x","p","i","r","e","s">>, w |-> 12],
        [kw |-> <<"e","x","p","i","r","i","n","g">>, w |-> 12],
        [kw |-> <<"t","i","m","e"," ","c","o","n","s","t","r","a","i","n","t">>, w |-> 12] >>],
    [category |-> "medium", keywords_dict |-> <<
        [kw |-> <<"p","l","e","a","s","e">>, w |-> 8],
        [kw |-> <<"n","e","e","d">>, w |-> 8],
        [kw |-> <<"i","m","p","o","r","t","a","n","t">>, w |-> 8],
        [kw |-> <<"w","a","i","t","i","n","g">>, w |-> 8],
        [kw |-> <<"r","e","q","u","i","r","e","d">>, w |-> 8],
        [kw |-> <<"n","e","c","e","s","s","a","r","y">>, w |-> 8],
        [kw |-> <<"r","e","s","p","o","n","s","e">>, w |-> 8],
        [kw |-> <<"f","o","l","l","o","w"," ","u","p">>, w |-> 8],
        [kw |-> <<"f","o","l","l","o","w","-","u","p">>, w |-> 8] >>]
  >>

TIME_KEYWORDS ==
  <<
    [kw |-> <<"t","o","d","a","y">>, w |-> 12],
    [kw |-> <<"b","y"," ","e","o","d">>, w |-> 12],
    [kw |-> <<"e","n","d"," ","o","f"," ","d","a","y">>, w |-> 12],
    [kw |-> <<"w","i","t","h","i","n"," ","2","4"," ","h","o","u","r","s">>, w |-> 12],
    [kw |-> <<"b","y"," ","5","p","m">>, w |-> 12],
    [kw |-> <<"b","y"," ","5"," ","p","m">>, w |-> 12],
    [kw |-> <<"t","h","i","s"," ","a","f","t","e","r","n","o","o","n">>, w |-> 12],
    [kw |-> <<"t","h","i","s"," ","m","o","r","n","i","n","g">>, w |-> 12],
    [kw |-> <<"b","y"," ","n","o","o","n">>, w |-> 12],
    [kw |-> <<"w","i","t","h","i","n"," ","h","o","u","r","s">>, w |-> 12],
    [kw |-> <<"w","i","t","h","i","n"," ","h","o","u","r">>, w |-> 12] >>

ACTION_KEYWORDS ==
  <<
    [kw |-> <<"c","a","l","l"," ","m","e">>, w |-> 8],
    [kw |-> <<"n","e","e","d"," ","r","e","s","p","o","n","s","e">>, w |-> 8],
    [kw |-> <<"p","l","e","a","s","e"," ","r","e","s","p","o","n","d">>, w |-> 8],
    [kw |-> <<"g","e","t"," ","b","a","c","k">>, w |-> 8],
    [kw |-> <<"r","e","s","p","o","n","d"," ","a","s","a","p">>, w |-> 8],
    [kw |-> <<"w","a","i","t","i","n","g"," ","f","o","r">>, w |-> 8],
    [kw |-> <<"n","e","e","d"," ","t","o"," ","k","n","o","w">>, w |-> 8],
    [kw |-> <<"l","e","t"," ","m","e"," ","k","n","o","w">>, w |-> 8],
    [kw |-> <<"c","o","n","f","i","r","m">>, w |-> 8],
    [kw |-> <<"a","p","p","r","o","v","a","l"," ","n","e","e","d","e","d">>, w |-> 8] >>

URGENCY_THRESHOLDS == [critical |-> 76, high |-> 51, medium |-> 26, low |-> 0]

MAX_URGENCY_SCORE == 100

(***************************************************************************)
(* Python values and strings                                               *)
(***************************************************************************)
\* a str value
Str(s) == [kind |-> "str", chars |-> s]

\* values that are not a str: None, and the float NaN pandas gives an empty cell
None == [kind |-> "NoneType", chars |-> << >>]
NaN == [kind |-> "float", chars |-> << >>]

UpperCase == << "A","B","C","D","E","F","G","H","I","J","K","L","M",
                "N","O","P","Q","R","S","T","U","V","W","X","Y","Z" >>

LowerCase == << "a","b","c","d","e","f","g","h","i","j","k","l","m",
                "n","o","p","q","r","s","t","u","v","w","x","y","z" >>

\* an upper-case letter for which Unicode defines no lower-case form, written by its code
\* point (DOUBLE-STRUCK CAPITAL C): str.isupper() holds of it and str.lower() returns it
\* as it is
UncasedCapital == "U+2102"

\* the characters the pattern \s matches
Whitespace == { " ", "\t", "\n", "\r" }

\* the lower-case letter of each upper-case letter
LowerOf == [ c \in Range(UpperCase) |-> LowerCase[CHOOSE i \in 1..Len(UpperCase) : UpperCase[i] = c] ]

ToLower(c) == IF c \in DOMAIN LowerOf THEN LowerOf[c] ELSE c

\* str.lower()
Lower(s) == [ i \in 1..Len(s) |-> ToLower(s[i]) ]

\* re.sub(r'\s+', ' ', text): each maximal run of whitespace becomes one space
\* (the last character of a run becomes the space, the others are dropped)
CollapseWhitespace(s) ==
    LET marked == [ i \in 1..Len(s) |->
                      IF s[i] \notin Whitespace THEN s[i]
                      ELSE IF i < Len(s) /\ s[i + 1] \in Whitespace THEN "" ELSE " " ]
    IN  SelectSeq(marked, LAMBDA c : c # "")

\* str.lstrip(): the leading whitespace removed, the trailing whitespace kept
StripLeft(s) ==
    LET n == Len(s)
        first == CHOOSE i \in 1..(n + 1) :
                    /\ i = n + 1 \/ s[i] \notin Whitespace
                    /\ \A j \in 1..(i - 1) : s[j] \in Whitespace
    IN  SubSeq(s, first, n)

\* str.strip(): what lies between the leading and the trailing whitespace
Strip(s) ==
    LET n == Len(s)
        first == CHOOSE i \in 1..(n + 1) :
                    /\ i = n + 1 \/ s[i] \notin Whitespace
                    /\ \A j \in 1..(i - 1) : s[j] \in Whitespace
        last  == CHOOSE i \in 0..n :
                    /\ i = 0 \/ s[i] \notin Whitespace
                    /\ \A j \in (i + 1)..n : s[j] \in Whitespace
    IN  IF first > last THEN << >> ELSE SubSeq(s, first, last)

\* the start positions of the occurrences of keyword in text
Occurrences(keyword, text) ==
    { i \in 1..(Len(text) - Len(keyword) + 1) :
        SubSeq(text, i, i + Len(keyword) - 1) = keyword }

\* the keyword matched as whole words only: an occurrence counts when it starts the text
\* or follows a space, and ends the text or precedes a space
InWholeWords(keyword, text) ==
    \E i \in Occurrences(keyword, text) :
        /\ i = 1 \/ text[i - 1] = " "
        /\ i + Len(keyword) - 1 = Len(text) \/ text[i + Len(keyword)] = " "

\* `keyword in text`
In(keyword, text) == Occurrences(keyword, text) # {}

\* dict.get(key, default)
DictGet(d, key, default) == IF key \in DOMAIN d THEN d[key] ELSE default

\* list(a_set) and iteration over a set of str: the elements, each once, in an order
\* fixed by the interpreter's hash seed.  `inserted` lists the elements in insertion order.
SetIterationOrder(seed, inserted) ==
    CASE seed = 0 -> inserted
      [] seed = 1 -> Reverse(inserted)
      [] OTHER    -> RotateLeft(inserted)

RECURSIVE Distinct(_)
\* the elements of s, each kept at its first occurrence only
Distinct(s) ==
    IF s = << >> THEN << >>
    ELSE LET n == Len(s)
         IN  Distinct(SubSeq(s, 1, n - 1))
             \o (IF \E j \in 1..(n - 1) : s[j] = s[n] THEN << >> ELSE << s[n] >>)

\* a_set.update(items), the set kept as the sequence of its elements in insertion order
SetUpdate(inserted, items) == Distinct(inserted \o items)

RECURSIVE Join(_, _)
\* sep.join(strings)
Join(sep, strings) ==
    IF strings = << >> THEN << >>
    ELSE IF Len(strings) = 1 THEN Head(strings)
    ELSE Head(strings) \o sep \o Join(sep, Tail(strings))

(***************************************************************************)
(* src/src/email_analyzer.py                                               *)
(***************************************************************************)
\* preprocess_text without the isinstance test: the text of str(value), lower-cased
preprocess_text_coercing(text) ==
    IF text.kind # "str"
    THEN IF text.kind = "NoneType" THEN << "n", "o", "n", "e" >> ELSE << "n", "a", "n" >>
    ELSE Strip(CollapseWhitespace(Lower(text.chars)))

preprocess_text(text) ==
    IF text.kind # "str" THEN << >>
    ELSE Strip(CollapseWhitespace(Lower(text.chars)))

generate_urgency_report(email_data, urgency_score, urgency_level, flagged_keywords) ==
    [ email_id         |-> DictGet(email_data, "email_id", Str(<< >>)),
      sender           |-> DictGet(email_data, "sender", Str(<< >>)),
      subject          |-> DictGet(email_data, "subject", Str(<< >>)),
      urgency_score    |-> urgency_score,
      urgency_level    |-> urgency_level,
      flagged_keywords |-> IF flagged_keywords # << >>
                           THEN Join(<< ",", " " >>, flagged_keywords)
                           ELSE << "N", "o", "n", "e" >>,
      keyword_count    |-> Len(flagged_keywords) ]

(***************************************************************************)
(* src/src/urgency_detector.py                                             *)
(***************************************************************************)
\* calculate_keyword_score adding the weight once per occurrence of the keyword
calculate_keyword_score_counting(text, keywords_dict) ==
    LET text_lower == Lower(text)
        hits == SelectSeq(keywords_dict, LAMBDA item : In(item.kw, text_lower))
    IN  [ score          |->
              SumSeq([ i \in 1..Len(hits) |->
                         hits[i].w * Cardinality(Occurrences(hits[i].kw, text_lower)) ]),
          found_keywords |-> [ i \in 1..Len(hits) |-> hits[i].kw ] ]

\* text is a str, given as its characters; keywords_dict lists the items of the dict in
\* insertion order.  The loop adds the weight and appends the keyword of each item that hits.
calculate_keyword_score(text, keywords_dict) ==
    LET text_lower == Lower(text)
        hits == SelectSeq(keywords_dict, LAMBDA item : In(item.kw, text_lower))
    IN  [ score          |-> SumSeq([ i \in 1..Len(hits) |-> hits[i].w ]),
          found_keywords |-> [ i \in 1..Len(hits) |-> hits[i].kw ] ]

contains_time_constraint(text, tk) ==
    calculate_keyword_score(preprocess_text(text), tk)

contains_action_words(text, ak) ==
    calculate_keyword_score(preprocess_text(text), ak)

\* the category loop leaving at the first category that scores
CategoryLoopFirstMatch(text_clean, categories) ==
    LET r == [ i \in 1..Len(categories) |->
                 calculate_keyword_score(text_clean, categories[i].keywords_dict) ]
        scoring == SelectSeq(r, LAMBDA x : x.score > 0)
    IN  IF scoring = << >> THEN [score |-> 0, keywords |-> << >>]
        ELSE [score |-> scoring[1].score,
              keywords |-> SetUpdate(<< >>, scoring[1].found_keywords)]

\* `for category, keywords_dict in self.urgency_keywords.items()`: the scores added up,
\* the keywords gathered into a set
CategoryLoop(text_clean, categories) ==
    LET r == [ i \in 1..Len(categories) |->
                 calculate_keyword_score(text_clean, categories[i].keywords_dict) ]
    IN  [ score    |-> SumSeq([ i \in 1..Len(r) |-> r[i].score ]),
          keywords |-> SetUpdate(<< >>, Concat([ i \in 1..Len(r) |-> r[i].found_keywords ])) ]

\* the body score left uncapped
CapBodyMissing(body_score) == body_score

\* body_score = min(body_score, 70)
CapBody(body_score) == Min(body_score, 70)

\* the subject bonus left uncapped
CapSubjectMissing(subject_score) == subject_score

\* subject_bonus = min(subject_score, 30)
CapSubject(subject_score) == Min(subject_score, 30)

\* final_score = min(body_score + subject_bonus, MAX_URGENCY_SCORE)
FinalScore(body_score, subject_bonus) == Min(body_score + subject_bonus, MAX_URGENCY_SCORE)

\* the subject keywords listed without their origin marker
SubjectTagOmitted == << >>

\* the suffix of f"{kw} (subject)"
SubjectTag == << " ", "(", "s", "u", "b", "j", "e", "c", "t", ")" >>

\* the earlier scoring scheme: body and subject sums added without caps, the subject sum
\* weighted by SUBJECT_WEIGHT_MULTIPLIER = 1.5
calculate_urgency_score_uncapped(subject, body, uk, tk, ak, seed) ==
    LET body_clean == preprocess_text(body)
        subject_clean == preprocess_text(subject)
        all == Concat([ i \in 1..Len(uk) |-> uk[i].keywords_dict ]) \o tk \o ak
        b == calculate_keyword_score(body_clean, all)
        s == calculate_keyword_score(subject_clean, all)
    IN  [ score    |-> b.score + (s.score * 3) \div 2,
          keywords |-> b.found_keywords \o s.found_keywords ]

calculate_urgency_score(subject, body, uk, tk, ak, seed) ==
    LET body_clean == preprocess_text(body)
        b1 == CategoryLoop(body_clean, uk)
        bt == contains_time_constraint(body, tk)
        ba == contains_action_words(body, ak)
        body_score == CapBody(b1.score + bt.score + ba.score)
        body_keywords ==
            SetUpdate(SetUpdate(b1.keywords, bt.found_keywords), ba.found_keywords)
        subject_clean == preprocess_text(subject)
        s1 == CategoryLoop(subject_clean, uk)
        st == calculate_keyword_score(subject_clean, tk)
        sa == calculate_keyword_score(subject_clean, ak)
        subject_score == s1.score + st.score + sa.score
        subject_keywords ==
            SetUpdate(SetUpdate(s1.keywords, st.found_keywords), sa.found_keywords)
        subject_bonus == CapSubject(subject_score)
        subject_list == SetIterationOrder(seed, subject_keywords)
    IN  [ score    |-> FinalScore(body_score, subject_bonus),
          keywords |-> SetIterationOrder(seed, body_keywords)
                       \o [ i \in 1..Len(subject_list) |-> subject_list[i] \o SubjectTag ] ]

\* the thresholds compared with > instead of >=
classify_urgency_level_strict(score, th) ==
    IF score > th.critical THEN "Critical"
    ELSE IF score > th.high THEN "High"
    ELSE IF score > th.medium THEN "Medium"
    ELSE "Low"

classify_urgency_level(score, th) ==
    IF score >= th.critical THEN "Critical"
    ELSE IF score >= th.high THEN "High"
    ELSE IF score >= th.medium THEN "Medium"
    ELSE "Low"

detect_urgency(email_data, uk, tk, ak, th, seed) ==
    LET subject == DictGet(email_data, "subject", Str(<< >>))
        body == DictGet(email_data, "body", Str(<< >>))
        r == calculate_urgency_score(subject, body, uk, tk, ak, seed)
    IN  generate_urgency_report(email_data, r.score,
                                classify_urgency_level(r.score, th), r.keywords)

(***************************************************************************)
(* Text fragments the input texts are made of                              *)
(***************************************************************************)
Frag1 == <<"U","R","G","E","N","T"," ","n","e","e","d"," ","t","o"," ","k","n","o","w"," ","A","S","A","P">>
Frag2 == <<"u","r","g","e","n","t"," ","n","e","e","d">>
Frag3 == <<" ","P","l","e","a","s","e"," "," ","c","o","n","f","i","r","m","\t","b","y"," ","E","n","d"," ","o","f","\n","D","a","y","\t"," ">>
\* a text of whitespace only
Blank == <<" ","\t">>

(***************************************************************************)
(* Bounds and inputs of the scoring operations                             *)
(***************************************************************************)
MaxBodyFragments == 2
MaxSubjectFragments == 1
MaxTableOrder == 1
MaxHashSeed == 1

Fragments == { Frag1, Frag2, Frag3 }

\* the texts made of at most n fragments
Texts(n) == { Concat(fs) : fs \in SeqsUpTo(Fragments, n) }

NonStrings == { None, NaN }

\* every str of up to MaxTextLen characters over a small alphabet: an upper-case letter,
\* a space, a tab, and an upper-case letter without lower-case form
MaxTextLen == 4

Alphabet == { "A", " ", "\t", UncasedCapital }

Strings == { Str(s) : s \in SeqsUpTo(Alphabet, MaxTextLen) }

Bodies == { Str(t) : t \in Texts(MaxBodyFragments) \cup { Blank } } \cup NonStrings

Subjects == { Str(t) : t \in Texts(MaxSubjectFragments) \cup { Blank } } \cup NonStrings

\* the email_data dicts: a field holds a str or NaN, or its key is absent
Absent == [kind |-> "absent", chars |-> << >>]

EmailFields == { Str(t) : t \in Texts(MaxSubjectFragments) \cup { Blank } } \cup { NaN, Absent }

EmailData(subject, body) ==
    [ k \in { "email_id" } \cup (IF subject = Absent THEN {} ELSE { "subject" })
                           \cup (IF body = Absent THEN {} ELSE { "body" })
      |-> CASE k = "email_id" -> Str(<< "e", "1" >>)
            [] k = "subject"  -> subject
            [] k = "body"     -> body ]

\* the storage orders of a table: as configured, reversed, rotated, ...
Reorder(s, k) ==
    CASE k = 0 -> s
      [] k = 1 -> Reverse(s)
      [] k = 2 -> RotateLeft(s)
      [] OTHER -> RotateLeft(Reverse(s))

ReorderCategories(uk, k) ==
    Reorder([ i \in 1..Len(uk) |->
                [category |-> uk[i].category,
                 keywords_dict |-> Reorder(uk[i].keywords_dict, k)] ], k)

TableNames == { "critical", "high", "medium", "time", "action" }

\* the detector's table of that name
TableOf(name, uk, tk, ak) ==
    CASE name = "time"   -> tk
      [] name = "action" -> ak
      [] OTHER -> (CHOOSE c \in Range(uk) : c.category = name).keywords_dict

NoCall == [op |-> "none"]
NoReturn == [kind |-> "NoReturn"]

(***************************************************************************)
(* Construction                                                            *)
(***************************************************************************)
\* UrgencyDetector.__init__: the tables of config.py, in some storage order
InitDetector ==
    /\ \E k \in 0..MaxTableOrder :
         /\ urgency_keywords = ReorderCategories(URGENCY_KEYWORDS, k)
         /\ time_keywords = Reorder(TIME_KEYWORDS, k)
         /\ action_keywords = Reorder(ACTION_KEYWORDS, k)
    /\ thresholds = URGENCY_THRESHOLDS
    /\ hashseed \in 0..MaxHashSeed

DetectorUnchanged ==
    UNCHANGED << urgency_keywords, time_keywords, action_keywords, thresholds, hashseed >>

\* the caller is between two calls
Idle == call = NoCall

\* the caller takes the result of the last call
Return ==
    /\ ~Idle
    /\ call' = NoCall
    /\ ret' = NoReturn
    /\ UNCHANGED << urgency_keywords, time_keywords, action_keywords, thresholds, hashseed,
                    config, alerts, df, results_df >>

(***************************************************************************)
(* Scoring operations                                                      *)
(***************************************************************************)
PreprocessText ==
    \E text \in Bodies \cup Strings :
        /\ Idle
        /\ call' = [op |-> "preprocess_text", text |-> text]
        /\ ret' = preprocess_text(text)
        /\ DetectorUnchanged
        /\ UNCHANGED << config, alerts, df, results_df >>

CalculateKeywordScore ==
    \E text \in Texts(MaxBodyFragments), name \in TableNames :
        /\ Idle
        /\ call' = [op |-> "calculate_keyword_score", text |-> text, table |-> name]
        /\ ret' = calculate_keyword_score(text,
                      TableOf(name, urgency_keywords, time_keywords, action_keywords))
        /\ DetectorUnchanged
        /\ UNCHANGED << config, alerts, df, results_df >>

CalculateUrgencyScore ==
    \E subject \in Subjects, body \in Bodies :
        /\ Idle
        /\ call' = [op |-> "calculate_urgency_score", subject |-> subject, body |-> body]
        /\ ret' = calculate_urgency_score(subject, body, urgency_keywords, time_keywords,
                                          action_keywords, hashseed)
        /\ DetectorUnchanged
        /\ UNCHANGED << config, alerts, df, results_df >>

ClassifyUrgencyLevel ==
    \E score \in 0..MAX_URGENCY_SCORE :
        /\ Idle
        /\ call' = [op |-> "classify_urgency_level", score |-> score]
        /\ ret' = classify_urgency_level(score, thresholds)
        /\ DetectorUnchanged
        /\ UNCHANGED << config, alerts, df, results_df >>

DetectUrgency ==
    \E subject \in EmailFields, body \in EmailFields :
        /\ Idle
        /\ call' = [op |-> "detect_urgency", email_data |-> EmailData(subject, body)]
        /\ ret' = detect_urgency(EmailData(subject, body), urgency_keywords, time_keywords,
                                 action_keywords, thresholds, hashseed)
        /\ DetectorUnchanged
        /\ UNCHANGED << config, alerts, df, results_df >>


(***************************************************************************)
(* Construction from a configuration module holding any threshold table    *)
(***************************************************************************)
\* tables URGENCY_THRESHOLDS of the configuration module may hold: the shipped one, one
\* with inverted bounds, one with two equal bounds, one not starting at 0, one with a
\* bound beyond the maximum score
ThresholdTables ==
    { URGENCY_THRESHOLDS,
      [critical |-> 26, high |-> 51, medium |-> 76, low |-> 0],
      [critical |-> 76, high |-> 51, medium |-> 51, low |-> 0],
      [critical |-> 76, high |-> 51, medium |-> 26, low |-> 10],
      [critical |-> 120, high |-> 51, medium |-> 26, low |-> 0] }

\* UrgencyDetector.__init__: the fields are assigned from the configuration module as
\* they are; nothing is inspected
InitDetectorFrom(configured_thresholds) ==
    /\ urgency_keywords = URGENCY_KEYWORDS
    /\ time_keywords = TIME_KEYWORDS
    /\ action_keywords = ACTION_KEYWORDS
    /\ thresholds = configured_thresholds
    /\ hashseed = 0

\* the table with one more entry
WithEntry(keywords_dict, kw, w) == Append(keywords_dict, [kw |-> kw, w |-> w])

\* the category tables with one more entry in the table of that category
WithCategoryEntry(uk, category, kw, w) ==
    [ i \in 1..Len(uk) |->
        IF uk[i].category = category
        THEN [category |-> category, keywords_dict |-> WithEntry(uk[i].keywords_dict, kw, w)]
        ELSE uk[i] ]

\* configurations of the tables: as shipped, and with a phrase of one table entered with
\* the same weight in a second table ('urgent': 15 also under 'high'; 'need': 8 also among
\* the action keywords; 'confirm': 8 also under 'medium')
ConfiguredTables ==
    { [uk |-> URGENCY_KEYWORDS, tk |-> TIME_KEYWORDS, ak |-> ACTION_KEYWORDS],
      [uk |-> WithCategoryEntry(URGENCY_KEYWORDS, "high", << "u","r","g","e","n","t" >>, 15),
       tk |-> TIME_KEYWORDS, ak |-> ACTION_KEYWORDS],
      [uk |-> URGENCY_KEYWORDS, tk |-> TIME_KEYWORDS,
       ak |-> WithEntry(ACTION_KEYWORDS, << "n","e","e","d" >>, 8)],
      [uk |-> WithCategoryEntry(URGENCY_KEYWORDS, "medium", << "c","o","n","f","i","r","m" >>, 8),
       tk |-> TIME_KEYWORDS, ak |-> ACTION_KEYWORDS] }

\* UrgencyDetector.__init__ with the configured tables
InitDetectorWith(tables) ==
    /\ urgency_keywords = tables.uk
    /\ time_keywords = tables.tk
    /\ action_keywords = tables.ak
    /\ thresholds = URGENCY_THRESHOLDS
    /\ hashseed = 0
(***************************************************************************)
(* Numbers and frames                                                      *)
(*                                                                         *)
(* A float is an exact fraction [num, den] with den > 0; the float NaN has *)
(* den = 0.  A DataFrame is [columns, rows]: rows is the sequence of its   *)
(* rows in positional (iloc) order, each a function on columns.            *)
(***************************************************************************)
Frac(n, d) == [num |-> n, den |-> d]

NaNFrac == Frac(0, 0)

\* a >= b; False when either is NaN
FracGeq(a, b) == a.den # 0 /\ b.den # 0 /\ a.num * b.den >= b.num * a.den

FracEq(a, b) == a.den # 0 /\ b.den # 0 /\ a.num * b.den = b.num * a.den

\* a - b
FracSub(a, b) ==
    IF a.den = 0 \/ b.den = 0 THEN NaNFrac
    ELSE Frac(a.num * b.den - b.num * a.den, a.den * b.den)

\* Series.mean() of integers: NaN for an empty series
Mean(s) == IF s = << >> THEN NaNFrac ELSE Frac(SumSeq(s), Len(s))

\* Series.mean() of fractions of one common denominator: NaN entries are skipped
MeanSkipNaN(s) ==
    LET defined == SelectSeq(s, LAMBDA x : x.den # 0)
    IN  IF defined = << >> THEN NaNFrac
        ELSE Frac(SumSeq([ i \in 1..Len(defined) |-> defined[i].num ]),
                  defined[1].den * Len(defined))

\* df[column] as a sequence
Column(rows, column) == [ i \in 1..Len(rows) |-> rows[i][column] ]

\* the number of entries of s that satisfy Test
Count(s, Test(_)) == Len(SelectSeq(s, Test))

\* sort_values(column): the row positions in ascending order of keys.  The default
\* quicksort leaves the relative order of equal keys unspecified; ties |-> "kept" keeps
\* their original order, ties |-> "reversed" reverses it.
ArgSort(keys, ties) ==
    LET Before(j, i) ==
            \/ keys[j] < keys[i]
            \/ keys[j] = keys[i] /\ (IF ties = "kept" THEN j < i ELSE j > i)
        position == [ i \in 1..Len(keys) |->
                        1 + Cardinality({ j \in 1..Len(keys) : Before(j, i) }) ]
    IN  [ p \in 1..Len(keys) |-> CHOOSE i \in 1..Len(keys) : position[i] = p ]

TieOrders == { "kept", "reversed" }

SortValues(rows, column, ties) ==
    LET order == ArgSort(Column(rows, column), ties)
    IN  [ p \in 1..Len(rows) |-> rows[order[p]] ]

\* Series.unique(): the distinct values in order of first appearance
Unique(s) == Distinct(s)

(***************************************************************************)
(* src/src/alert_system.py                                                 *)
(***************************************************************************)
\* an optional argument: left out (None), or given
Omitted == << >>
Given(value) == << value >>

\* `arg or default`: None and 0 are falsy
Or(arg, default) == IF arg = Omitted \/ arg[1] = 0 THEN default ELSE arg[1]

\* the window left open at its end: every row from the 0-based start i on
WindowToEnd(s, i, window_size) == SubSeq(s, i + 1, Len(s))

\* the window df.iloc[i : i + window_size] of a 0-based start i
Window(s, i, window_size) == SubSeq(s, i + 1, Min(i + window_size, Len(s)))

\* the window's count taking scores equal to the threshold too
SpikeAlertInclusive(scores, i, window_size, negative_threshold) ==
    LET window == Window(scores, i, window_size)
        negative_count == Count(window, LAMBDA x : x <= negative_threshold)
    IN  [ alert_type         |-> "Negative Spike Detected",
          severity           |-> "High",
          start_index        |-> i,
          end_index          |-> i + window_size - 1,
          negative_count     |-> negative_count,
          negative_ratio     |-> Frac(negative_count, window_size),
          avg_compound_score |-> Mean(window) ]

SpikeAlert(scores, i, window_size, negative_threshold) ==
    LET window == Window(scores, i, window_size)
        negative_count == Count(window, LAMBDA x : x < negative_threshold)
    IN  [ alert_type         |-> "Negative Spike Detected",
          severity           |-> "High",
          start_index        |-> i,
          end_index          |-> i + window_size - 1,
          negative_count     |-> negative_count,
          negative_ratio     |-> Frac(negative_count, window_size),
          avg_compound_score |-> Mean(window) ]

\* the scan reporting a sustained run once: a window that qualifies right after a window
\* that qualified is merged into it
detect_negative_spike_merged(frame, window_size_arg, cfg) ==
    IF "compound_score" \notin frame.columns THEN << >>
    ELSE
      LET window_size == Or(window_size_arg, cfg.spike_window)
          scores == Column(frame.rows, "compound_score")
          starts == [ k \in 1..(Len(scores) - window_size + 1) |-> k - 1 ]
          Qualifies(i) ==
              FracGeq(SpikeAlert(scores, i, window_size, cfg.negative_threshold).negative_ratio,
                      cfg.min_negative_ratio)
          hits == SelectSeq(starts, LAMBDA i : Qualifies(i) /\ ~(i > 0 /\ Qualifies(i - 1)))
      IN  [ k \in 1..Len(hits) |->
              SpikeAlert(scores, hits[k], window_size, cfg.negative_threshold) ]

\* the alert dicts without their 'message' text and wall-clock 'timestamp'
detect_negative_spike(frame, window_size_arg, cfg) ==
    IF "compound_score" \notin frame.columns THEN << >>
    ELSE
      LET window_size == Or(window_size_arg, cfg.spike_window)
          scores == Column(frame.rows, "compound_score")
          starts == [ k \in 1..(Len(scores) - window_size + 1) |-> k - 1 ]
          hits == SelectSeq(starts, LAMBDA i :
                    FracGeq(SpikeAlert(scores, i, window_size,
                                       cfg.negative_threshold).negative_ratio,
                            cfg.min_negative_ratio))
      IN  [ k \in 1..Len(hits) |->
              SpikeAlert(scores, hits[k], window_size, cfg.negative_threshold) ]

\* the returned frame: the flagged rows with the added high_priority column, sorted by score
flag_high_priority_comments(frame, threshold_arg, cfg, ties) ==
    IF "compound_score" \notin frame.columns THEN [columns |-> {}, rows |-> << >>]
    ELSE
      LET threshold == Or(threshold_arg, cfg.negative_threshold)
          flagged == [ i \in 1..Len(frame.rows) |->
                         [ c \in frame.columns \cup { "high_priority" } |->
                             IF c = "high_priority"
                             THEN frame.rows[i]["compound_score"] < threshold
                             ELSE frame.rows[i][c] ] ]
          high_priority_df == SelectSeq(flagged, LAMBDA r : r["high_priority"])
      IN  [ columns |-> frame.columns \cup { "high_priority" },
            rows    |-> SortValues(high_priority_df, "compound_score", ties) ]

\* window = 5
DropWindow == 5

\* df['compound_score'].rolling(window, center=False).mean(): NaN until a full window is seen
RollingMean(scores, window) ==
    [ j \in 1..Len(scores) |->
        IF j < window THEN NaNFrac
        ELSE Frac(SumSeq(SubSeq(scores, j - window + 1, j)), window) ]

\* the current range taken one position late
DropAlertShifted(sorted, rolling_avg, i, window) ==
    LET prev_avg == MeanSkipNaN(SubSeq(rolling_avg, i - window + 1, i))
        curr_avg == MeanSkipNaN(SubSeq(rolling_avg, i + 2, Min(i + window + 1, Len(rolling_avg))))
    IN  [ alert_type     |-> "Sentiment Drop Detected",
          severity       |-> "Medium",
          timestamp      |-> sorted[i + 1]["timestamp"],
          previous_avg   |-> prev_avg,
          current_avg    |-> curr_avg,
          drop_magnitude |-> FracSub(prev_avg, curr_avg) ]

DropAlert(sorted, rolling_avg, i, window) ==
    LET prev_avg == MeanSkipNaN(SubSeq(rolling_avg, i - window + 1, i))
        curr_avg == MeanSkipNaN(SubSeq(rolling_avg, i + 1, i + window))
    IN  [ alert_type     |-> "Sentiment Drop Detected",
          severity       |-> "Medium",
          timestamp      |-> sorted[i + 1]["timestamp"],
          previous_avg   |-> prev_avg,
          current_avg    |-> curr_avg,
          drop_magnitude |-> FracSub(prev_avg, curr_avg) ]

\* time_column is 'timestamp'; the alert dicts without their 'message' text
detect_sentiment_drop(frame, drop_threshold, ties) ==
    IF "timestamp" \notin frame.columns \/ "compound_score" \notin frame.columns
    THEN << >>
    ELSE
      LET sorted == SortValues(frame.rows, "timestamp", ties)
          window == DropWindow
      IN  IF Len(sorted) < window * 2 THEN << >>
          ELSE
            LET rolling_avg == RollingMean(Column(sorted, "compound_score"), window)
                indices == [ k \in 1..(Len(sorted) - 2 * window) |-> window + k - 1 ]
                hits == SelectSeq(indices, LAMBDA i :
                          FracGeq(DropAlert(sorted, rolling_avg, i, window).drop_magnitude,
                                  drop_threshold))
            IN  [ k \in 1..Len(hits) |-> DropAlert(sorted, rolling_avg, hits[k], window) ]

\* if total < 5: continue
MinPlatformSamples == 5

\* the platform alert raised with the severity of a spike
PlatformAlertHigh(rows, platform) ==
    LET platform_df == SelectSeq(rows, LAMBDA r : r["platform"] = platform)
        total == Len(platform_df)
        negative_count == Count(platform_df, LAMBDA r : r["sentiment"] = "Negative")
    IN  [ alert_type          |-> "Platform Alert",
          severity            |-> "High",
          platform            |-> platform,
          negative_percentage |-> Frac(negative_count * 100, total),
          negative_count      |-> negative_count,
          total_count         |-> total ]

PlatformAlert(rows, platform) ==
    LET platform_df == SelectSeq(rows, LAMBDA r : r["platform"] = platform)
        total == Len(platform_df)
        negative_count == Count(platform_df, LAMBDA r : r["sentiment"] = "Negative")
    IN  [ alert_type          |-> "Platform Alert",
          severity            |-> "Medium",
          platform            |-> platform,
          negative_percentage |-> Frac(negative_count * 100, total),
          negative_count      |-> negative_count,
          total_count         |-> total ]

\* the samples test letting a platform with fewer than 5 rows through
EnoughSamplesMissing(total) == total > 0

\* `if total < 5: continue`, negated
EnoughSamples(total) == ~(total < MinPlatformSamples)

\* the guard testing the platform column only, a row without a label counted as negative
analyze_platform_alerts_unlabelled(frame, negative_threshold_pct) ==
    IF "platform" \notin frame.columns THEN << >>
    ELSE
      LET rows == [ i \in 1..Len(frame.rows) |->
                      [ c \in { "platform", "sentiment" } |->
                          IF c \in frame.columns THEN frame.rows[i][c] ELSE "Negative" ] ]
          platforms == Unique(Column(rows, "platform"))
          hits == SelectSeq(platforms, LAMBDA p :
                    LET a == PlatformAlert(rows, p)
                    IN  /\ EnoughSamples(a.total_count)
                        /\ FracGeq(a.negative_percentage, negative_threshold_pct))
      IN  [ k \in 1..Len(hits) |-> PlatformAlert(rows, hits[k]) ]

\* the alert dicts without their 'message' text and wall-clock 'timestamp'
analyze_platform_alerts(frame, negative_threshold_pct) ==
    IF "platform" \notin frame.columns \/ "sentiment" \notin frame.columns THEN << >>
    ELSE
      LET platforms == Unique(Column(frame.rows, "platform"))
          hits == SelectSeq(platforms, LAMBDA p :
                    LET a == PlatformAlert(frame.rows, p)
                    IN  /\ EnoughSamples(a.total_count)
                        /\ FracGeq(a.negative_percentage, negative_threshold_pct))
      IN  [ k \in 1..Len(hits) |-> PlatformAlert(frame.rows, hits[k]) ]

\* drop_threshold: float = 0.3
DefaultDropThreshold == Frac(30, 1)

\* negative_threshold_pct: float = 50.0
DefaultNegativePct == Frac(50, 1)

\* high_priority.head(10)
HeadRows == 10

\* the three extend() calls in another order
ExtendAlertsPlatformFirst(spike_alerts, drop_alerts, platform_alerts) ==
    platform_alerts \o spike_alerts \o drop_alerts

\* report['alerts'] after the three extend() calls
ExtendAlerts(spike_alerts, drop_alerts, platform_alerts) ==
    spike_alerts \o drop_alerts \o platform_alerts

\* the report dict without its wall-clock 'timestamp'
generate_alert_report(frame, include_high_priority, cfg, time_ties, score_ties) ==
    LET spike_alerts == detect_negative_spike(frame, Omitted, cfg)
        drop_alerts == IF "timestamp" \in frame.columns
                       THEN detect_sentiment_drop(frame, DefaultDropThreshold, time_ties)
                       ELSE << >>
        platform_alerts == IF "platform" \in frame.columns
                           THEN analyze_platform_alerts(frame, DefaultNegativePct)
                           ELSE << >>
        report_alerts == ExtendAlerts(spike_alerts, drop_alerts, platform_alerts)
        high_priority == flag_high_priority_comments(frame, Omitted, cfg, score_ties)
        summary == [ total_analyzed      |-> Len(frame.rows),
                     alerts              |-> report_alerts,
                     alert_count         |-> Len(report_alerts),
                     has_critical_alerts |->
                         \E k \in 1..Len(report_alerts) : report_alerts[k].severity = "High" ]
    IN  IF include_high_priority /\ Len(high_priority.rows) > 0
        THEN [ k \in DOMAIN summary \cup { "high_priority_count", "high_priority_comments" } |->
                 CASE k = "high_priority_count"    -> Len(high_priority.rows)
                   [] k = "high_priority_comments" ->
                          SubSeq(high_priority.rows, 1, Min(HeadRows, Len(high_priority.rows)))
                   [] OTHER -> summary[k] ]
        ELSE summary

(***************************************************************************)
(* Bounds and inputs of the alert operations                               *)
(***************************************************************************)
MaxShortLen == 4
MaxLongLen == 11
MaxWindowArg == 3
MaxDropLen == 12
MaxSegmentLen == 5
MaxBlock == 3
MaxReportLen == 12

\* ALERT_SETTINGS of the alert system's config module
ALERT_SETTINGS ==
    [spike_window |-> 10, negative_threshold |-> -50, min_negative_ratio |-> Frac(7, 10)]

\* a config dict passed to the constructor
CustomSettings ==
    [spike_window |-> 2, negative_threshold |-> -30, min_negative_ratio |-> Frac(1, 2)]

ConfigArgs == { Omitted, Given(CustomSettings) }

NoFrame == [columns |-> {}, rows |-> << >>]

\* a frame of the given columns; column c of row i holds cell[c][i]
Frame(columns, n, cell) ==
    [ columns |-> columns,
      rows    |-> [ i \in 1..n |-> [ c \in columns |-> cell[c][i] ] ] ]

ScoreFrame(scores) ==
    Frame({ "compound_score" }, Len(scores), [c \in { "compound_score" } |-> scores])

TimedFrame(scores, times) ==
    Frame({ "compound_score", "timestamp" }, Len(scores),
          [c \in { "compound_score", "timestamp" } |->
             IF c = "compound_score" THEN scores ELSE times])

\* a frame without scores
TextFrame(n) == Frame({ "text" }, n, [c \in { "text" } |-> [i \in 1..n |-> "t"]])

\* x repeated n times
Repeat(x, n) == [ i \in 1..n |-> x ]

\* the sequences of length n made of one run of a followed by one run of b
TwoRuns(a, b, n) == { Repeat(a, k) \o Repeat(b, n - k) : k \in 0..n }

Ascending(n) == [ i \in 1..n |-> i ]
Descending(n) == [ i \in 1..n |-> n + 1 - i ]
\* rows 2k-1 and 2k share an instant
Paired(n) == [ i \in 1..n |-> (i + 1) \div 2 ]

HasTies(keys) == \E i, j \in 1..Len(keys) : i < j /\ keys[i] = keys[j]

\* both outcomes of an unstable sort where keys tie, the only outcome where none does
TieChoices(keys) == IF HasTies(keys) THEN TieOrders ELSE { "kept" }

\* spike scans: every short sequence over a score below, at and above the configured
\* threshold; every long enough sequence over two scores for the configured window
SpikeFrames ==
    { ScoreFrame(s) : s \in SeqsUpTo({ -70, -50, 30 }, MaxShortLen) }
    \cup { ScoreFrame(s) : s \in { t \in SeqsUpTo({ -70, 30 }, MaxLongLen) :
                                     Len(t) >= ALERT_SETTINGS.spike_window } }
    \cup { TextFrame(MaxShortLen) }

WindowArgs == { Omitted, Given(0) } \cup { Given(w) : w \in 1..MaxWindowArg }

\* drop scans: every sequence over two scores around the minimal length, in time order;
\* two-run sequences stored against time order or with tied instants; frames lacking a column
DropFrames ==
    { TimedFrame(s, Ascending(Len(s))) :
        s \in { t \in SeqsUpTo({ -70, 50 }, MaxDropLen) : Len(t) >= 2 * DropWindow - 1 } }
    \cup UNION { { TimedFrame(s, Descending(MaxDropLen)), TimedFrame(s, Paired(MaxDropLen)) } :
                   s \in TwoRuns(50, -70, MaxDropLen) \cup TwoRuns(-70, 50, MaxDropLen) }
    \cup { ScoreFrame(Repeat(50, DropWindow) \o Repeat(-70, MaxDropLen - DropWindow)),
           TextFrame(MaxDropLen) }

DropThresholdArgs == { DefaultDropThreshold, Frac(24, 1) }

\* segment scans: every short frame over two platforms and two labels; frames of four
\* blocks (platform x label) of up to MaxBlock rows; frames lacking a column
SegmentRow(p, s) == [c \in { "platform", "sentiment" } |-> IF c = "platform" THEN p ELSE s]

SegmentRows ==
    { SegmentRow(p, s) : p \in { "twitter", "reddit" }, s \in { "Negative", "Positive" } }

SegmentFrames ==
    { [columns |-> { "platform", "sentiment" }, rows |-> r] :
        r \in SeqsUpTo(SegmentRows, MaxSegmentLen) }
    \cup { [columns |-> { "platform", "sentiment" },
            rows |-> Repeat(SegmentRow("twitter", "Negative"), a)
                     \o Repeat(SegmentRow("reddit", "Positive"), b)
                     \o Repeat(SegmentRow("twitter", "Positive"), c)
                     \o Repeat(SegmentRow("reddit", "Negative"), d)] :
           a \in 0..MaxBlock, b \in 0..MaxBlock, c \in 0..MaxBlock, d \in 0..MaxBlock }
    \cup { ScoreFrame(Repeat(-70, MaxSegmentLen)),
           Frame({ "platform" }, MaxSegmentLen,
                 [c \in { "platform" } |-> Repeat("twitter", MaxSegmentLen)]) }

NegativePctArgs == { DefaultNegativePct, Frac(60, 1) }

\* reports: two-run score sequences; the label follows the sign of the score; one platform
\* or two alternating; rows in time order or in pairs of tied instants; any set of columns
ReportColumnSets ==
    { { "compound_score", "timestamp", "platform", "sentiment" },
      { "compound_score", "platform", "sentiment" },
      { "compound_score", "timestamp", "sentiment" },
      { "compound_score", "sentiment" },
      { "timestamp", "platform", "sentiment" } }

\* no rows, one full segment, and the lengths at which the drop scan has an index to scan
ReportLens == { 0, MinPlatformSamples } \cup (2 * DropWindow + 1)..MaxReportLen

ReportFrame(columns, scores, times, alternate) ==
    Frame(columns, Len(scores),
          [c \in columns |->
             CASE c = "compound_score" -> scores
               [] c = "timestamp" -> times
               [] c = "platform" ->
                    [i \in 1..Len(scores) |->
                       IF alternate /\ i % 2 = 0 THEN "reddit" ELSE "twitter"]
               [] c = "sentiment" ->
                    [i \in 1..Len(scores) |->
                       IF scores[i] < 0 THEN "Negative" ELSE "Positive"]])

ReportFrames ==
    { ReportFrame(columns, s, times, alternate) :
        columns \in ReportColumnSets,
        s \in UNION { TwoRuns(50, -70, n) \cup TwoRuns(-70, 50, n) : n \in ReportLens },
        times \in { Ascending(MaxReportLen), Paired(MaxReportLen) },
        alternate \in BOOLEAN }

\* batches lacking fields: the rows of a report batch that raises alerts of every kind
\* (one platform, five positive scores then negative ones), cut down to each set of columns
AlertColumns == { "compound_score", "timestamp", "platform", "sentiment" }

DegradedFrames ==
    { ReportFrame(columns, s, Ascending(MaxReportLen), FALSE) :
        columns \in SUBSET AlertColumns,
        s \in { << >>, Repeat(50, DropWindow) \o Repeat(-70, MaxReportLen - DropWindow),
                Repeat(-70, MaxReportLen) } }

(***************************************************************************)
(* Alert operations                                                        *)
(***************************************************************************)
\* SentimentAlertSystem.__init__(config)
InitAlertSystem ==
    /\ \E c \in ConfigArgs : config = IF c = Omitted THEN ALERT_SETTINGS ELSE c[1]
    /\ alerts = << >>

\* the rolling average written into the caller's batch instead of a copy of it
AlertSystemBatchMarked ==
    /\ UNCHANGED << config, alerts >>
    /\ df' = [df EXCEPT !.columns = @ \cup { "rolling_avg" }]

\* the operations work on df.copy() and assign neither self.config nor self.alerts
AlertSystemUnchanged == UNCHANGED << config, alerts, df >>

OthersUnchanged ==
    UNCHANGED << urgency_keywords, time_keywords, action_keywords, thresholds, hashseed,
                 results_df >>

DetectNegativeSpike ==
    \E window_size \in WindowArgs :
        /\ Idle
        /\ call' = [op |-> "detect_negative_spike", window_size |-> window_size]
        /\ ret' = detect_negative_spike(df, window_size, config)
        /\ AlertSystemUnchanged
        /\ OthersUnchanged

DetectSentimentDrop ==
    \E drop_threshold \in DropThresholdArgs,
       ties \in IF "timestamp" \in df.columns
                THEN TieChoices(Column(df.rows, "timestamp")) ELSE { "kept" } :
        /\ Idle
        /\ call' = [op |-> "detect_sentiment_drop", drop_threshold |-> drop_threshold,
                    ties |-> ties]
        /\ ret' = detect_sentiment_drop(df, drop_threshold, ties)
        /\ AlertSystemUnchanged
        /\ OthersUnchanged

AnalyzePlatformAlerts ==
    \E negative_threshold_pct \in NegativePctArgs :
        /\ Idle
        /\ call' = [op |-> "analyze_platform_alerts",
                    negative_threshold_pct |-> negative_threshold_pct]
        /\ ret' = analyze_platform_alerts(df, negative_threshold_pct)
        /\ AlertSystemUnchanged
        /\ OthersUnchanged

GenerateAlertReport ==
    \E include_high_priority \in BOOLEAN,
       time_ties \in IF "timestamp" \in df.columns
                     THEN TieChoices(Column(df.rows, "timestamp")) ELSE { "kept" } :
      \E score_ties \in IF include_high_priority /\ "compound_score" \in df.columns
                        THEN TieOrders ELSE { "kept" } :
        /\ Idle
        /\ call' = [op |-> "generate_alert_report",
                    include_high_priority |-> include_high_priority,
                    time_ties |-> time_ties, score_ties |-> score_ties]
        /\ ret' = generate_alert_report(df, include_high_priority, config,
                                        time_ties, score_ties)
        /\ AlertSystemUnchanged
        /\ OthersUnchanged

\* batches of comments: the text identifies the record; scores below, at and above the
\* configured thresholds, and between them and 0
CommentFrame(scores) ==
    Frame({ "text", "compound_score" }, Len(scores),
          [c \in { "text", "compound_score" } |->
             IF c = "compound_score" THEN scores ELSE [i \in 1..Len(scores) |-> i]])

PriorityFrames ==
    { CommentFrame(s) : s \in SeqsUpTo({ -70, -50, -30, 30 }, MaxShortLen) }
    \cup { TextFrame(MaxShortLen) }

\* the threshold left out, and passed: a negative one and zero
PriorityThresholdArgs == { Omitted, Given(-30), Given(0) }

FlagHighPriorityComments ==
    \E threshold \in PriorityThresholdArgs,
       ties \in IF "compound_score" \in df.columns
                THEN TieChoices(Column(df.rows, "compound_score")) ELSE { "kept" } :
        /\ Idle
        /\ call' = [op |-> "flag_high_priority_comments", threshold |-> threshold]
        /\ ret' = flag_high_priority_comments(df, threshold, config, ties)
        /\ AlertSystemUnchanged
        /\ OthersUnchanged

\* batches that grow: a batch of 2 * window records in time order, one run of a score
\* followed by one run of another, to which the caller appends later records
MaxAppended == 3

StreamSeeds ==
    { TimedFrame(s, Ascending(2 * DropWindow)) :
        s \in TwoRuns(50, -70, 2 * DropWindow) \cup TwoRuns(-70, 50, 2 * DropWindow) }

\* every batch a seed grows into
StreamFrames ==
    { TimedFrame(Column(seed.rows, "compound_score") \o later,
                 Ascending(2 * DropWindow + Len(later))) :
        seed \in StreamSeeds, later \in SeqsUpTo({ -70, 50 }, MaxAppended) }

\* pd.concat([df, later_record]): a record later than every record of the batch
AppendRecord ==
    \E score \in { -70, 50 } :
        /\ Idle
        /\ Len(df.rows) < 2 * DropWindow + MaxAppended
        /\ df' = [df EXCEPT !.rows = Append(@, [ c \in df.columns |->
                                                   IF c = "compound_score" THEN score
                                                   ELSE Len(df.rows) + 1 ])]
        /\ UNCHANGED << config, alerts, call, ret >>
        /\ OthersUnchanged
(***************************************************************************)
(* src/main.py                                                             *)
(***************************************************************************)
\* columns = ['email_id', 'sender', 'subject', 'urgency_score', 'urgency_level',
\*            'flagged_keywords', 'priority_rank', 'timestamp']
OutputColumns ==
    { "email_id", "sender", "subject", "urgency_score", "urgency_level",
      "flagged_keywords", "priority_rank", "timestamp" }

\* the sort with ascending=[False, False]
LexSortLatestFirst(rows) ==
    LET Before(j, i) ==
            \/ rows[j]["urgency_score"] > rows[i]["urgency_score"]
            \/ /\ rows[j]["urgency_score"] = rows[i]["urgency_score"]
               /\ \/ rows[j]["timestamp"] > rows[i]["timestamp"]
                  \/ rows[j]["timestamp"] = rows[i]["timestamp"] /\ j < i
        Position(i) == 1 + Cardinality({ j \in 1..Len(rows) : Before(j, i) })
    IN  [ p \in 1..Len(rows) |-> CHOOSE i \in 1..Len(rows) : Position(i) = p ]

\* the sort leaving rows that tie on both keys in reverse ingestion order
LexSortTiesReversed(rows) ==
    LET Before(j, i) ==
            \/ rows[j]["urgency_score"] > rows[i]["urgency_score"]
            \/ /\ rows[j]["urgency_score"] = rows[i]["urgency_score"]
               /\ \/ rows[j]["timestamp"] < rows[i]["timestamp"]
                  \/ rows[j]["timestamp"] = rows[i]["timestamp"] /\ j > i
        Position(i) == 1 + Cardinality({ j \in 1..Len(rows) : Before(j, i) })
    IN  [ p \in 1..Len(rows) |-> CHOOSE i \in 1..Len(rows) : Position(i) = p ]

\* sort_values(by=['urgency_score', 'timestamp'], ascending=[False, True]): the row
\* positions in sorted order.  A sort on several columns is a stable lexicographic sort.
LexSort(rows) ==
    LET Before(j, i) ==
            \/ rows[j]["urgency_score"] > rows[i]["urgency_score"]
            \/ /\ rows[j]["urgency_score"] = rows[i]["urgency_score"]
               /\ \/ rows[j]["timestamp"] < rows[i]["timestamp"]
                  \/ rows[j]["timestamp"] = rows[i]["timestamp"] /\ j < i
        Position(i) == 1 + Cardinality({ j \in 1..Len(rows) : Before(j, i) })
    IN  [ p \in 1..Len(rows) |-> CHOOSE i \in 1..Len(rows) : Position(i) = p ]

\* save_results ranking by score alone when the frame has no timestamp column
save_results_lenient(frame, writable) ==
    IF ~writable THEN None
    ELSE IF "urgency_score" \notin frame.columns THEN None
    ELSE
      LET Before(j, i) ==
              \/ frame.rows[j]["urgency_score"] > frame.rows[i]["urgency_score"]
              \/ frame.rows[j]["urgency_score"] = frame.rows[i]["urgency_score"] /\ j < i
          Position(i) == 1 + Cardinality({ j \in 1..Len(frame.rows) : Before(j, i) })
          order == IF "timestamp" \in frame.columns THEN LexSort(frame.rows)
                   ELSE [ p \in 1..Len(frame.rows) |->
                            CHOOSE i \in 1..Len(frame.rows) : Position(i) = p ]
      IN  [ columns |-> frame.columns \cup { "priority_rank" },
            rows    |-> [ p \in 1..Len(order) |->
                            [ c \in frame.columns \cup { "priority_rank" } |->
                                IF c = "priority_rank" THEN p
                                ELSE frame.rows[order[p]][c] ] ] ]

\* writable: whether the output directory and file can be written.  Any exception is
\* caught and None returned.
save_results(frame, writable) ==
    IF ~writable THEN None
    ELSE IF ~({ "urgency_score", "timestamp" } \subseteq frame.columns) THEN None
    ELSE
      LET order == LexSort(frame.rows)
          ranked == [ p \in 1..Len(order) |->
                        [ c \in frame.columns \cup { "priority_rank" } |->
                            IF c = "priority_rank" THEN p ELSE frame.rows[order[p]][c] ] ]
      IN  IF ~(OutputColumns \subseteq frame.columns \cup { "priority_rank" }) THEN None
          ELSE [ columns |-> OutputColumns,
                 rows    |-> [ p \in 1..Len(ranked) |->
                                 [ c \in OutputColumns |-> ranked[p][c] ] ] ]

(***************************************************************************)
(* Bounds and inputs of the ranking                                        *)
(***************************************************************************)
MaxBatch == 4
MaxTime == 2

\* the columns analyze_emails gives the results frame
ResultColumns == OutputColumns \ { "priority_rank" }

\* the row of the email ingested at position i
ResultRow(columns, i, urgency_score, timestamp) ==
    [ c \in columns |->
        CASE c = "email_id"      -> i
          [] c = "urgency_score" -> urgency_score
          [] c = "urgency_level" -> classify_urgency_level(urgency_score, URGENCY_THRESHOLDS)
          [] c = "timestamp"     -> timestamp
          [] OTHER               -> "-" ]

ResultFrame(columns, cells) ==
    [ columns |-> columns,
      rows    |-> [ i \in 1..Len(cells) |-> ResultRow(columns, i, cells[i][1], cells[i][2]) ] ]

\* every batch of up to MaxBatch emails over three scores and MaxTime instants, and the
\* same batches without the timestamp column
ResultFrames ==
    { ResultFrame(ResultColumns, cells) :
        cells \in SeqsUpTo({ 0, 28, 100 } \X (1..MaxTime), MaxBatch) }
    \cup { ResultFrame(ResultColumns \ { "timestamp" }, cells) :
             cells \in SeqsUpTo({ << 28, 1 >> }, MaxBatch) }

SaveResults ==
    \E writable \in BOOLEAN :
        /\ Idle
        /\ call' = [op |-> "save_results", writable |-> writable]
        /\ ret' = save_results(results_df, writable)
        /\ UNCHANGED << urgency_keywords, time_keywords, action_keywords, thresholds,
                        hashseed, config, alerts, df, results_df >>


(***************************************************************************)
(* Batches with and without the timestamp field                            *)
(***************************************************************************)
\* score series that hold a drop, with the time column and without it
TimelessFrames ==
    UNION { { ScoreFrame(s), TimedFrame(s, Ascending(Len(s))) } :
              s \in TwoRuns(50, -70, MaxDropLen) }

\* analysed batches with the timestamp column and without it
TimelessResultFrames ==
    UNION { { ResultFrame(ResultColumns \ { "timestamp" }, cells),
              ResultFrame(ResultColumns, cells) } :
              cells \in SeqsUpTo({ << 28, 1 >>, << 100, 1 >> }, MaxBatch) }
(***************************************************************************)
(* src/main.py: analyze_emails, the records of a batch scored by workers   *)
(* that share one detector                                                 *)
(***************************************************************************)
MaxWorkers == 2

\* the emails of a batch: one over both caps, one of a few phrases in the body, one whose
\* cells are empty
BatchEmails ==
    { [email_id |-> Str(<< "e", "1" >>), subject |-> Str(Frag2), body |-> Str(Frag1),
       timestamp |-> 1],
      [email_id |-> Str(<< "e", "2" >>), subject |-> Str(Blank), body |-> Str(Frag3),
       timestamp |-> 2],
      [email_id |-> Str(<< "e", "3" >>), subject |-> NaN, body |-> NaN, timestamp |-> 1] }

EmailColumns == { "email_id", "subject", "body", "timestamp" }

BatchFrames ==
    { [columns |-> EmailColumns, rows |-> rows] :
        rows \in SeqsUpTo(BatchEmails, MaxWorkers) \ { << >> } }

\* a worker before its call, after calculate_urgency_score, and after the report
WorkerStart == [pc |-> "start"]
WorkerScored(r) == [pc |-> "scored", urgency_score |-> r.score, flagged_keywords |-> r.keywords]
WorkerDone(result) == [pc |-> "done", result |-> result]

\* a detector that keeps the score of the last call in an attribute shared by the workers:
\* the score read is the one of the last record scored
SharedScore(workers, i) ==
    LET scored == { j \in DOMAIN workers : workers[j].pc = "scored" }
    IN  workers[CHOOSE j \in scored : \A k \in scored : k <= j].urgency_score

\* `urgency_score, flagged_keywords = self.calculate_urgency_score(subject, body)`: the
\* score is a local of the call
LocalScore(workers, i) == workers[i].urgency_score

\* analyze_emails: detector = UrgencyDetector(); one worker per row
AnalyzeEmails ==
    /\ Idle
    /\ df.rows # << >>
    /\ call' = [op |-> "analyze_emails", workers |-> [ i \in 1..Len(df.rows) |-> WorkerStart ]]
    /\ ret' = NoReturn
    /\ DetectorUnchanged
    /\ UNCHANGED << config, alerts, df, results_df >>

\* detect_urgency up to the return of calculate_urgency_score
WorkerScore ==
    \E i \in 1..Len(df.rows) :
        /\ call.op = "analyze_emails"
        /\ call.workers[i].pc = "start"
        /\ LET email_data == df.rows[i]
               subject == DictGet(email_data, "subject", Str(<< >>))
               body == DictGet(email_data, "body", Str(<< >>))
               r == calculate_urgency_score(subject, body, urgency_keywords, time_keywords,
                                            action_keywords, hashseed)
           IN  call' = [call EXCEPT !.workers[i] = WorkerScored(r)]
        /\ DetectorUnchanged
        /\ UNCHANGED << config, alerts, df, results_df, ret >>

\* detect_urgency from classify_urgency_level on, and result['timestamp'] = row['timestamp']
WorkerReport ==
    \E i \in 1..Len(df.rows) :
        /\ call.op = "analyze_emails"
        /\ call.workers[i].pc = "scored"
        /\ LET email_data == df.rows[i]
               urgency_score == LocalScore(call.workers, i)
               urgency_level == classify_urgency_level(urgency_score, thresholds)
               result == generate_urgency_report(email_data, urgency_score, urgency_level,
                                                 call.workers[i].flagged_keywords)
               stamped == [ k \in DOMAIN result \cup { "timestamp" } |->
                              IF k = "timestamp" THEN email_data.timestamp ELSE result[k] ]
           IN  call' = [call EXCEPT !.workers[i] = WorkerDone(stamped)]
        /\ DetectorUnchanged
        /\ UNCHANGED << config, alerts, df, results_df, ret >>

\* return pd.DataFrame(results), the results in the order of the rows
ReturnResults ==
    /\ call.op = "analyze_emails"
    /\ \A i \in 1..Len(df.rows) : call.workers[i].pc = "done"
    /\ results_df' = [columns |-> DOMAIN call.workers[1].result,
                      rows    |-> [ i \in 1..Len(df.rows) |-> call.workers[i].result ]]
    /\ call' = NoCall
    /\ ret' = NoReturn
    /\ DetectorUnchanged
    /\ UNCHANGED << config, alerts, df >>

(***************************************************************************)
(* Properties of the urgency detector (specification SpecUrgency)          *)
(***************************************************************************)
\* every entry of the five configured tables
AllKeywords ==
    Concat([ i \in 1..Len(URGENCY_KEYWORDS) |-> URGENCY_KEYWORDS[i].keywords_dict ])
    \o TIME_KEYWORDS \o ACTION_KEYWORDS

\* the sum of the weights of the configured phrases that occur in the normalized field
PhraseSum(field) ==
    LET text == preprocess_text(field)
    IN  SumSeq([ i \in 1..Len(AllKeywords) |->
                   IF \E p \in 1..(Len(text) - Len(AllKeywords[i].kw) + 1) :
                        SubSeq(text, p, p + Len(AllKeywords[i].kw) - 1) = AllKeywords[i].kw
                   THEN AllKeywords[i].w ELSE 0 ])

Scored == call.op = "calculate_urgency_score"

Detected == call.op = "detect_urgency"

\* C1: the score calculate_urgency_score returns, and the urgency_score detect_urgency
\* reports, is an integer between 0 and 100, whatever the subject and the body are (str,
\* empty, missing or not a str), after every call of a sequence of calls.
C1_ScoreWithinBounds ==
    /\ Scored => ret.score \in 0..100
    /\ Detected => ret.urgency_score \in 0..100

\* C1 witness: both fields alone exceed their share and the score is exactly 100.
C1_Witness ==
    /\ Scored
    /\ PhraseSum(call.body) > 70
    /\ PhraseSum(call.subject) > 30
    /\ ret.score = 100

\* C2: the score is min(min(bodySum, 70) + min(subjectSum, 30), 100), the sums being those
\* of the weights of the phrases of the five tables found in the normalized body, and in
\* the normalized subject; each field is capped on its own before the two are added.
C2_CappedSplitScore ==
    Scored => ret.score = Min(Min(PhraseSum(call.body), 70)
                              + Min(PhraseSum(call.subject), 30), 100)

\* C2 witness: the body is over its cap, the subject under its own, and the total under
\* 100, so capping the sum instead of the fields would give another score.
C2_Witness ==
    /\ Scored
    /\ PhraseSum(call.body) > 70
    /\ PhraseSum(call.subject) \in 1..29
    /\ PhraseSum(call.body) + PhraseSum(call.subject) > 100
    /\ ret.score = 70 + PhraseSum(call.subject)

\* C3: classify_urgency_level answers for every integer score of 0..100, with contiguous
\* tiers: 0..25 Low, 26..50 Medium, 51..75 High, 76..100 Critical.
C3_ContiguousTiers ==
    call.op = "classify_urgency_level" =>
        /\ call.score \in 0..25 => ret = "Low"
        /\ call.score \in 26..50 => ret = "Medium"
        /\ call.score \in 51..75 => ret = "High"
        /\ call.score \in 76..100 => ret = "Critical"
        /\ ret \in { "Low", "Medium", "High", "Critical" }

\* C3 witness: the lowest Critical score has been classified.
C3_Witness == call.op = "classify_urgency_level" /\ call.score = 76 /\ ret = "Critical"

KeywordScored == call.op = "calculate_keyword_score"

\* the table the last calculate_keyword_score call was given
CalledTable == TableOf(call.table, urgency_keywords, time_keywords, action_keywords)

\* how many times the phrase occurs in the text
TimesInText(text, kw) ==
    Cardinality({ p \in 1..(Len(text) - Len(kw) + 1) :
                    SubSeq(text, p, p + Len(kw) - 1) = kw })

\* C4: calculate_keyword_score is a presence test: a phrase of the table that occurs in
\* the lower-cased text, once or many times, adds its weight once and is recorded once; a
\* phrase that does not occur adds nothing and is not recorded.
C4_PresenceTest ==
    KeywordScored =>
        \A text \in { Lower(call.text) }, table \in { CalledTable } :
            /\ ret.score = SumSeq([ i \in 1..Len(table) |->
                                      IF TimesInText(text, table[i].kw) >= 1
                                      THEN table[i].w ELSE 0 ])
            /\ \A i \in 1..Len(table) :
                 Cardinality({ k \in 1..Len(ret.found_keywords) :
                                 ret.found_keywords[k] = table[i].kw })
                   = IF TimesInText(text, table[i].kw) >= 1 THEN 1 ELSE 0
            /\ \A k \in 1..Len(ret.found_keywords) :
                 \E i \in 1..Len(table) : ret.found_keywords[k] = table[i].kw

\* C4 witness: a phrase occurs twice in the text and the score is its weight, once.
C4_Witness ==
    /\ KeywordScored
    /\ \E i \in 1..Len(CalledTable) :
         /\ TimesInText(Lower(call.text), CalledTable[i].kw) >= 2
         /\ ret.score = CalledTable[i].w
         /\ ret.found_keywords = << CalledTable[i].kw >>

\* C5: the score of calculate_keyword_score and of calculate_urgency_score is the one the
\* tables give in their configured order, whatever the order the detector stores the
\* phrases of a table and the category tables in.
C5_OrderInvariantScore ==
    /\ KeywordScored =>
         ret.score = calculate_keyword_score(call.text,
                         TableOf(call.table, URGENCY_KEYWORDS, TIME_KEYWORDS,
                                 ACTION_KEYWORDS)).score
    /\ Scored =>
         ret.score = calculate_urgency_score(call.subject, call.body, URGENCY_KEYWORDS,
                         TIME_KEYWORDS, ACTION_KEYWORDS, hashseed).score

\* C5 witness: the tables are stored in another order than configured, and phrases of two
\* categories are found in the body.
C5_Witness ==
    /\ Scored
    /\ urgency_keywords # URGENCY_KEYWORDS
    /\ urgency_keywords[1].category # "critical"
    /\ \E i, j \in 1..Len(urgency_keywords) :
         /\ i # j
         /\ calculate_keyword_score(preprocess_text(call.body),
                                    urgency_keywords[i].keywords_dict).score > 0
         /\ calculate_keyword_score(preprocess_text(call.body),
                                    urgency_keywords[j].keywords_dict).score > 0
    /\ ret.score \in 1..99

(***************************************************************************)
(* Properties of the alert system (SpecSpike, SpecDrop, SpecSegment,       *)
(* SpecReport)                                                             *)
(***************************************************************************)
\* detect_negative_spike ran on a batch with scores, with the configured window or an
\* explicit positive one
SpikeScanned ==
    /\ call.op = "detect_negative_spike"
    /\ "compound_score" \in df.columns
    /\ call.window_size # Given(0)

UsedWindow ==
    IF call.window_size = Omitted THEN config.spike_window ELSE call.window_size[1]

\* how many scores of the window starting at the 0-based position i lie strictly below
\* the negative threshold
BelowInWindow(i) ==
    Cardinality({ k \in (i + 1)..(i + UsedWindow) :
                    df.rows[k]["compound_score"] < config.negative_threshold })

EmitsSpikeAt(i) == \E k \in 1..Len(ret) : ret[k].start_index = i

\* C6: detect_negative_spike looks at every window start i of 0..N-windowSize and emits a
\* Spike event for i exactly when (scores of the window strictly below the negative
\* threshold) / windowSize >= minRatio; a score equal to the threshold does not count.
C6_SpikeIffRatio ==
    SpikeScanned =>
        /\ \A i \in 0..(Len(df.rows) - UsedWindow) :
             EmitsSpikeAt(i) <=>
                 BelowInWindow(i) * config.min_negative_ratio.den
                     >= config.min_negative_ratio.num * UsedWindow
        /\ \A k \in 1..Len(ret) :
             /\ ret[k].alert_type = "Negative Spike Detected"
             /\ ret[k].start_index \in 0..(Len(df.rows) - UsedWindow)
             /\ ret[k].negative_count = BelowInWindow(ret[k].start_index)

\* C6 witness: with the configured window of 10 and ratio of 0.7, a window with 7 scores
\* below the threshold emits and a window with 6 does not.
C6_Witness ==
    /\ SpikeScanned
    /\ call.window_size = Omitted
    /\ config = ALERT_SETTINGS
    /\ \E i, j \in 0..(Len(df.rows) - UsedWindow) :
         /\ BelowInWindow(i) = 7 /\ EmitsSpikeAt(i)
         /\ BelowInWindow(j) = 6 /\ ~EmitsSpikeAt(j)

\* detect_sentiment_drop ran on a batch with scores and timestamps
DropScanned ==
    /\ call.op = "detect_sentiment_drop"
    /\ { "compound_score", "timestamp" } \subseteq df.columns

\* five times the rolling average at the 1-based position j >= 5 of the time-sorted rows:
\* the sum of the five scores ending there
RollSum(sorted, j) ==
    SumSeq([ m \in 1..DropWindow |-> sorted[j - DropWindow + m]["compound_score"] ])

\* the 1-based positions of the range [i-w, i) of the 0-based index i whose rolling
\* average exists
PrevDefined(i) == { j \in (i - DropWindow + 1)..i : j >= DropWindow }

PrevSum(sorted, i) ==
    SumSeq([ m \in 1..DropWindow |->
               IF i - DropWindow + m \in PrevDefined(i)
               THEN RollSum(sorted, i - DropWindow + m)
               ELSE 0 ])

CurrSum(sorted, i) == SumSeq([ m \in 1..DropWindow |-> RollSum(sorted, i + m) ])

\* mean(rollingAvg[i-w .. i-1]) - mean(rollingAvg[i .. i+w-1]) >= dropThreshold, the first
\* mean taken over the rolling averages that exist
DropQualifies(sorted, i) ==
    LET k == Cardinality(PrevDefined(i))
    IN  (PrevSum(sorted, i) * DropWindow - CurrSum(sorted, i) * k) * call.drop_threshold.den
            >= call.drop_threshold.num * DropWindow * DropWindow * k

\* the 0-based indices w .. N-w-1 that qualify, in increasing order
DropIndices(sorted) ==
    SelectSeq([ k \in 1..(Len(sorted) - 2 * DropWindow) |-> DropWindow + k - 1 ],
              LAMBDA i : DropQualifies(sorted, i))

SegmentScanned ==
    /\ call.op = "analyze_platform_alerts"
    /\ { "platform", "sentiment" } \subseteq df.columns

PlatformRows(p) == { i \in 1..Len(df.rows) : df.rows[i]["platform"] = p }

NegativeRows(p) == { i \in PlatformRows(p) : df.rows[i]["sentiment"] = "Negative" }

\* C8: analyze_platform_alerts emits exactly one SegmentAlert for a platform exactly when
\* the platform has at least 5 records and 100 * negatives / records >= the percentage
\* threshold; a platform with fewer than 5 records gets none; the event carries the
\* platform, the percentage and both counts.
C8_SegmentAlertIffShare ==
    SegmentScanned =>
        /\ \A p \in Range(Column(df.rows, "platform")) :
             Cardinality({ k \in 1..Len(ret) : ret[k].platform = p })
               = IF /\ Cardinality(PlatformRows(p)) >= 5
                    /\ 100 * Cardinality(NegativeRows(p)) * call.negative_threshold_pct.den
                         >= call.negative_threshold_pct.num * Cardinality(PlatformRows(p))
                 THEN 1 ELSE 0
        /\ \A k \in 1..Len(ret) :
             /\ ret[k].alert_type = "Platform Alert"
             /\ ret[k].platform \in Range(Column(df.rows, "platform"))
             /\ ret[k].total_count = Cardinality(PlatformRows(ret[k].platform))
             /\ ret[k].negative_count = Cardinality(NegativeRows(ret[k].platform))
             /\ FracEq(ret[k].negative_percentage,
                       Frac(100 * ret[k].negative_count, ret[k].total_count))

\* C8 witness: one platform with 5 records or more alerts at a share equal to the
\* threshold, another with fewer than 5 records, all negative, does not.
C8_Witness ==
    /\ SegmentScanned
    /\ Len(ret) = 1
    /\ FracEq(ret[1].negative_percentage, call.negative_threshold_pct)
    /\ \E p \in Range(Column(df.rows, "platform")) :
         /\ p # ret[1].platform
         /\ Cardinality(PlatformRows(p)) \in 1..4
         /\ NegativeRows(p) = PlatformRows(p)

Reported == call.op = "generate_alert_report"

AlertsOfType(type) == SelectSeq(ret.alerts, LAMBDA a : a.alert_type = type)

\* C9: the alerts of a report are the Spike events, then the Drop events (none without a
\* timestamp column), then the SegmentAlert events (none without a platform column);
\* total_analyzed is the batch size, alert_count the number of alerts, and
\* has_critical_alerts says whether some alert has severity High.
C9_ReportOrderAndSummary ==
    Reported =>
        /\ ret.alerts = AlertsOfType("Negative Spike Detected")
                        \o AlertsOfType("Sentiment Drop Detected")
                        \o AlertsOfType("Platform Alert")
        /\ AlertsOfType("Negative Spike Detected") = detect_negative_spike(df, Omitted, config)
        /\ AlertsOfType("Sentiment Drop Detected")
             = IF "timestamp" \in df.columns
               THEN detect_sentiment_drop(df, DefaultDropThreshold, call.time_ties)
               ELSE << >>
        /\ AlertsOfType("Platform Alert")
             = IF "platform" \in df.columns
               THEN analyze_platform_alerts(df, DefaultNegativePct)
               ELSE << >>
        /\ ret.total_analyzed = Len(df.rows)
        /\ ret.alert_count = Len(ret.alerts)
        /\ ret.has_critical_alerts
             <=> \E k \in 1..Len(ret.alerts) : ret.alerts[k].severity = "High"

\* C9 witness: a report holding events of the three kinds.
C9_Witness ==
    /\ Reported
    /\ AlertsOfType("Negative Spike Detected") # << >>
    /\ AlertsOfType("Sentiment Drop Detected") # << >>
    /\ AlertsOfType("Platform Alert") # << >>
    /\ ret.has_critical_alerts
    /\ ret.alert_count >= 3

(***************************************************************************)
(* Properties of the ranking (SpecRank)                                    *)
(***************************************************************************)
\* save_results returned the ranked frame
Ranked == call.op = "save_results" /\ "rows" \in DOMAIN ret

\* the position in the ranked frame of the email ingested at position i
RankOf(i) == ret.rows[CHOOSE p \in 1..Len(ret.rows) : ret.rows[p]["email_id"] = i]["priority_rank"]

\* C10: save_results orders the N records of a batch by urgency_score descending and,
\* among equal scores, by timestamp ascending, and gives the k-th record of that order
\* priority_rank k: the ranks are exactly 1..N, each once, and of two records with equal
\* scores the one with the earlier timestamp has the smaller rank.
C10_DenseRankByScoreThenTime ==
    Ranked =>
        LET N == Len(results_df.rows)
        IN  /\ Len(ret.rows) = N
            /\ \A p \in 1..N : ret.rows[p]["priority_rank"] = p
            /\ \A i \in 1..N :
                 \E p \in 1..N :
                    /\ ret.rows[p]["email_id"] = i
                    /\ ret.rows[p]["urgency_score"] = results_df.rows[i]["urgency_score"]
                    /\ ret.rows[p]["timestamp"] = results_df.rows[i]["timestamp"]
            /\ \A p \in 1..(N - 1) :
                 \/ ret.rows[p]["urgency_score"] > ret.rows[p + 1]["urgency_score"]
                 \/ /\ ret.rows[p]["urgency_score"] = ret.rows[p + 1]["urgency_score"]
                    /\ ret.rows[p]["timestamp"] <= ret.rows[p + 1]["timestamp"]
            /\ \A i, j \in 1..N :
                 /\ results_df.rows[i]["urgency_score"] = results_df.rows[j]["urgency_score"]
                 /\ results_df.rows[i]["timestamp"] < results_df.rows[j]["timestamp"]
                 => RankOf(i) < RankOf(j)

\* C10 witness: of two emails with equal scores the later ingested one is the earlier in
\* time, and a third, ingested last, has a higher score; the ranking puts the third first
\* and the earlier of the two before the other.
C10_Witness ==
    /\ Ranked
    /\ Len(results_df.rows) >= 3
    /\ results_df.rows[1]["urgency_score"] = results_df.rows[2]["urgency_score"]
    /\ results_df.rows[1]["timestamp"] > results_df.rows[2]["timestamp"]
    /\ results_df.rows[3]["urgency_score"] > results_df.rows[1]["urgency_score"]
    /\ RankOf(3) = 1
    /\ RankOf(2) < RankOf(1)

\* C11: two records of a batch with the same urgency_score and the same timestamp keep
\* their ingestion order in the ranking: the one ingested first has the smaller
\* priority_rank.
C11_FullTiesKeepIngestionOrder ==
    Ranked =>
        \A i, j \in 1..Len(results_df.rows) :
            /\ i < j
            /\ results_df.rows[i]["urgency_score"] = results_df.rows[j]["urgency_score"]
            /\ results_df.rows[i]["timestamp"] = results_df.rows[j]["timestamp"]
            => RankOf(i) < RankOf(j)

\* C11 witness: the first and the third email tie on score and timestamp, the second
\* has a higher score; the ranking is second, first, third.
C11_Witness ==
    /\ Ranked
    /\ Len(results_df.rows) = 3
    /\ results_df.rows[1]["urgency_score"] = results_df.rows[3]["urgency_score"]
    /\ results_df.rows[1]["timestamp"] = results_df.rows[3]["timestamp"]
    /\ results_df.rows[2]["urgency_score"] > results_df.rows[1]["urgency_score"]
    /\ RankOf(2) = 1 /\ RankOf(1) = 2 /\ RankOf(3) = 3

(***************************************************************************)
(* Degraded inputs of the urgency detector (SpecUrgency)                   *)
(***************************************************************************)
\* the field of the email is missing or is not a str
NoText(email_data, field) ==
    field \notin DOMAIN email_data \/ email_data[field].kind # "str"

\* C12: a missing or non-str subject or body raises nothing: preprocess_text returns the
\* empty string for it, it adds 0 to the score (the score is then the capped sum of the
\* other field), and a record whose subject and body are both missing or not a str gets
\* urgency_score 0 and level Low.
C12_NonTextScoresZero ==
    /\ call.op = "preprocess_text" /\ call.text.kind # "str" => ret = << >>
    /\ Scored /\ call.body.kind # "str" =>
          ret.score = Min(PhraseSum(call.subject), 30)
    /\ Scored /\ call.subject.kind # "str" =>
          ret.score = Min(PhraseSum(call.body), 70)
    /\ Scored /\ call.body.kind # "str" /\ call.subject.kind # "str" =>
          ret = [score |-> 0, keywords |-> << >>]
    /\ Detected /\ NoText(call.email_data, "subject") /\ NoText(call.email_data, "body") =>
          /\ ret.urgency_score = 0
          /\ ret.urgency_level = "Low"
          /\ ret.keyword_count = 0

\* C12 witness: an email without a subject key and with a NaN body has been analysed
\* and reported with score 0 and level Low.
C12_Witness ==
    /\ Detected
    /\ "subject" \notin DOMAIN call.email_data
    /\ "body" \in DOMAIN call.email_data /\ call.email_data["body"] = NaN
    /\ ret.urgency_score = 0
    /\ ret.urgency_level = "Low"

(***************************************************************************)
(* A missing timestamp field (SpecTimeless)                                *)
(***************************************************************************)
\* the outcome of a call that fails with a MissingFieldError
MissingFieldError == [kind |-> "raised", exception |-> "MissingFieldError"]

RankedWithoutTimestamp ==
    call.op = "save_results" /\ "timestamp" \notin results_df.columns

DropScannedWithoutTimestamp ==
    call.op = "detect_sentiment_drop" /\ "timestamp" \notin df.columns

\* C13 as stated: without the timestamp field, save_results and detect_sentiment_drop
\* both fail with a MissingFieldError.
C13_MissingTimestampRaises ==
    /\ RankedWithoutTimestamp => ret = MissingFieldError
    /\ DropScannedWithoutTimestamp => ret = MissingFieldError

\* C13 amended: without the timestamp field neither call raises: save_results returns
\* None (no ranked batch) and detect_sentiment_drop returns the empty list.
C13_MissingTimestampDegrades ==
    /\ RankedWithoutTimestamp => ret = None
    /\ DropScannedWithoutTimestamp => ret = << >>

\* C13 witness: a batch of two analysed emails without timestamps was handed to
\* save_results with a writable output path, and None came back.
C13_Witness ==
    /\ RankedWithoutTimestamp
    /\ call.writable
    /\ Len(results_df.rows) >= 2
    /\ ret = None

(***************************************************************************)
(* Threshold tables (SpecConfigured)                                       *)
(***************************************************************************)
\* the lower bounds start at 0, increase strictly and stay within the score range
ValidThresholds(th) ==
    /\ th.low = 0
    /\ th.low < th.medium /\ th.medium < th.high /\ th.high < th.critical
    /\ th.critical <= MAX_URGENCY_SCORE

\* C14: construction with a threshold table whose lower bounds are not strictly
\* increasing or do not cover 0..100 fails, so no classify_urgency_level call is ever
\* made by a detector holding such a table.
C14_InvalidThresholdsRejected ==
    call.op = "classify_urgency_level" => ValidThresholds(thresholds)

(***************************************************************************)
(* Batches lacking fields (SpecDegraded)                                   *)
(***************************************************************************)
\* no detector of the report has the fields it requires
NoDetectorCanRun ==
    /\ "compound_score" \notin df.columns
    /\ ~({ "platform", "sentiment" } \subseteq df.columns)

\* C15: an alert routine given a batch without a field it requires returns the empty
\* list: detect_negative_spike without compound_score, detect_sentiment_drop without
\* compound_score or without timestamp, analyze_platform_alerts without platform or
\* without sentiment; generate_alert_report still returns a report, with no alert and
\* alert_count 0 when no detector can run.
C15_MissingFieldsGiveNoAlert ==
    /\ call.op = "detect_negative_spike" /\ "compound_score" \notin df.columns
          => ret = << >>
    /\ call.op = "detect_sentiment_drop"
          /\ ~({ "compound_score", "timestamp" } \subseteq df.columns)
          => ret = << >>
    /\ call.op = "analyze_platform_alerts"
          /\ ~({ "platform", "sentiment" } \subseteq df.columns)
          => ret = << >>
    /\ Reported =>
          /\ { "total_analyzed", "alerts", "alert_count", "has_critical_alerts" }
                \subseteq DOMAIN ret
          /\ ret.total_analyzed = Len(df.rows)
          /\ NoDetectorCanRun =>
                ret.alerts = << >> /\ ret.alert_count = 0 /\ ~ret.has_critical_alerts

\* C15 witness: a report on twelve rows that have a timestamp and a platform but neither
\* score nor label: twelve analysed, no alert.
C15_Witness ==
    /\ Reported
    /\ df.columns = { "timestamp", "platform" }
    /\ Len(df.rows) = MaxReportLen
    /\ ret.total_analyzed = MaxReportLen
    /\ ret.alert_count = 0

(***************************************************************************)
(* The keyword list (SpecUrgency)                                          *)
(***************************************************************************)
\* the configured phrases that occur in the normalized field
MatchedPhrases(field) ==
    LET text == preprocess_text(field)
    IN  { AllKeywords[i].kw : i \in
            { n \in 1..Len(AllKeywords) :
                \E p \in 1..(Len(text) - Len(AllKeywords[n].kw) + 1) :
                    SubSeq(text, p, p + Len(AllKeywords[n].kw) - 1) = AllKeywords[n].kw } }

UrgentPhrase == << "u", "r", "g", "e", "n", "t" >>

\* a phrase as the keyword list shows it when it was found in the subject
Tagged(kw) == kw \o << " ", "(", "s", "u", "b", "j", "e", "c", "t", ")" >>

\* C16: the keyword list of calculate_urgency_score is the phrases found in the body, each
\* once and untagged, followed by the phrases found in the subject, each once and with the
\* suffix " (subject)"; no subject entry comes before a body entry, and the score is the
\* capped sum of the weights, whatever the tags are.
C16_BodyThenTaggedSubject ==
    Scored =>
        \A in_body \in { MatchedPhrases(call.body) },
           in_subject \in { MatchedPhrases(call.subject) } :
            LET nb == Cardinality(in_body)
                ns == Cardinality(in_subject)
            IN  /\ Len(ret.keywords) = nb + ns
                /\ { ret.keywords[i] : i \in 1..nb } = in_body
                /\ { ret.keywords[nb + i] : i \in 1..ns } = { Tagged(kw) : kw \in in_subject }
                /\ ret.score = Min(Min(PhraseSum(call.body), 70)
                                   + Min(PhraseSum(call.subject), 30), 100)

\* C16 witness: "urgent" and "urgent need" are found in the body and in the subject; the
\* list holds each untagged and then each tagged.
C16_Witness ==
    /\ Scored
    /\ UrgentPhrase \in MatchedPhrases(call.body) \cap MatchedPhrases(call.subject)
    /\ Cardinality(MatchedPhrases(call.body)) >= 3
    /\ Cardinality(MatchedPhrases(call.subject)) >= 3
    /\ \E i, j \in 1..Len(ret.keywords) :
          /\ i < j
          /\ ret.keywords[i] = UrgentPhrase
          /\ ret.keywords[j] = Tagged(UrgentPhrase)

\* the configured phrases found in the normalized field, in the order of the category
\* scan: critical, high, medium, time, action, and within a table in the order it is written
InScanOrder(field) ==
    LET found == MatchedPhrases(field)
        hits == SelectSeq(AllKeywords, LAMBDA item : item.kw \in found)
    IN  [ i \in 1..Len(hits) |-> hits[i].kw ]

\* C17: the keyword list is in the order of the category scan (critical, high, medium,
\* time, action), whatever the order in which the tables and the collection of the matches
\* are stored: every run on the same subject and body returns the same sequence.
C17_KeywordsInScanOrder ==
    Scored =>
        \A body_hits \in { InScanOrder(call.body) },
           subject_hits \in { InScanOrder(call.subject) } :
            ret.keywords = body_hits
                           \o [ i \in 1..Len(subject_hits) |-> Tagged(subject_hits[i]) ]

(***************************************************************************)
(* Phrases entered twice (SpecDuplicated)                                  *)
(***************************************************************************)
\* C18: when a phrase is entered a second time, with the same weight, in another of the
\* tables scanned for a text, a text containing it receives its weight once: the score is
\* the one the tables with the single entry give.
C18_DuplicateEntryCountsOnce ==
    Scored =>
        ret.score = calculate_urgency_score(call.subject, call.body, URGENCY_KEYWORDS,
                                            TIME_KEYWORDS, ACTION_KEYWORDS, hashseed).score

(***************************************************************************)
(* Workers sharing one detector (SpecBatch)                                *)
(***************************************************************************)
\* what detect_urgency reports for the record alone, stamped with the record's timestamp
OwnResult(email_data) ==
    LET result == detect_urgency(email_data, urgency_keywords, time_keywords,
                                 action_keywords, thresholds, hashseed)
    IN  [ k \in DOMAIN result \cup { "timestamp" } |->
            IF k = "timestamp" THEN email_data.timestamp ELSE result[k] ]

\* every record reported so far, and every row of the returned frame, holds what the
\* record's own subject and body give
ResultsAreOwn ==
    /\ call.op = "analyze_emails" =>
          \A i \in 1..Len(df.rows) :
              call.workers[i].pc = "done" => call.workers[i].result = OwnResult(df.rows[i])
    /\ results_df # NoFrame =>
          /\ Len(results_df.rows) = Len(df.rows)
          /\ \A i \in 1..Len(df.rows) : results_df.rows[i] = OwnResult(df.rows[i])

TablesUnchanged ==
    UNCHANGED << urgency_keywords, time_keywords, action_keywords, thresholds >>

\* C19: scoring is stateless: no step of a worker changes the detector's weight tables or
\* thresholds, and the score, tier and keywords reported for a record are those of its own
\* subject and body, in every order and interleaving in which the workers sharing the
\* detector score the records of the batch.
C19_ScoringStateless == [][TablesUnchanged]_vars /\ []ResultsAreOwn

\* C19 witness: the second record of a batch was scored and reported before the first one,
\* of another tier, was reported; the frame returned holds both records' own results.
C19_Witness ==
    /\ Idle
    /\ Len(df.rows) = 2
    /\ results_df # NoFrame
    /\ Len(results_df.rows) = 2
    /\ results_df.rows[1].urgency_level = "Critical"
    /\ results_df.rows[2].urgency_level = "Medium"
    /\ results_df.rows[2].urgency_score = 28

(***************************************************************************)
(* High-priority comments (SpecPriority)                                   *)
(***************************************************************************)
Flagged == call.op = "flag_high_priority_comments" /\ "compound_score" \in df.columns

\* the priority threshold of the call: the one passed, the configured negative threshold
\* when none is passed
PriorityThreshold ==
    IF call.threshold = Omitted THEN config.negative_threshold ELSE call.threshold[1]

\* the frame returned holds exactly the records of the batch with a score strictly below
\* the threshold t, in ascending order of score
ReturnsRecordsBelow(t) ==
    LET qualifying == { i \in 1..Len(df.rows) : df.rows[i]["compound_score"] < t }
    IN  /\ Len(ret.rows) = Cardinality(qualifying)
        /\ { ret.rows[k]["text"] : k \in 1..Len(ret.rows) } = qualifying
        /\ \A k \in 1..Len(ret.rows) :
              /\ ret.rows[k]["compound_score"] = df.rows[ret.rows[k]["text"]]["compound_score"]
              /\ ret.rows[k]["compound_score"] < t
        /\ \A k, l \in 1..Len(ret.rows) :
              k < l => ret.rows[k]["compound_score"] <= ret.rows[l]["compound_score"]

\* C20: flag_high_priority_comments returns exactly the records whose compound_score is
\* strictly below the priority threshold (the configured negative threshold when none is
\* passed), in ascending order of score: no record at or above the threshold is returned
\* and no record below it is left out.
C20_ExactlyBelowThreshold == Flagged => ReturnsRecordsBelow(PriorityThreshold)

\* the same for the calls that leave the threshold out or pass one other than 0
BelowThresholdUnlessZero ==
    Flagged /\ call.threshold # Given(0) => ReturnsRecordsBelow(PriorityThreshold)

(***************************************************************************)
(* Overlapping spike windows (SpecSpike)                                   *)
(***************************************************************************)
\* the window starting at the 0-based position i qualifies
WindowQualifies(i) ==
    BelowInWindow(i) * config.min_negative_ratio.den
        >= config.min_negative_ratio.num * UsedWindow

\* the rows a..b (1-based) all score strictly below the negative threshold
NegativeRun(a, b) ==
    \A k \in a..b : df.rows[k]["compound_score"] < config.negative_threshold

\* C21: spike events are neither merged nor deduplicated: detect_negative_spike returns as
\* many events as there are qualifying window positions, in strictly increasing
\* start_index, each with end_index = start_index + windowSize - 1 <= N - 1; a run of
\* L >= windowSize consecutive scores below the threshold gives an event for each of its
\* L - windowSize + 1 windows; a sequence shorter than the window gives none.
C21_SpikesNotMerged ==
    SpikeScanned =>
        \A w \in { UsedWindow }, n \in { Len(df.rows) } :
            /\ Len(ret) = Cardinality({ i \in 0..(n - w) : WindowQualifies(i) })
            /\ \A k, l \in 1..Len(ret) : k < l => ret[k].start_index < ret[l].start_index
            /\ \A k \in 1..Len(ret) :
                  /\ ret[k].end_index = ret[k].start_index + w - 1
                  /\ ret[k].end_index <= n - 1
            /\ \A a, b \in 1..n :
                  b - a + 1 >= w /\ NegativeRun(a, b) =>
                      /\ \A i \in (a - 1)..(b - w) : EmitsSpikeAt(i)
                      /\ Len(ret) >= (b - a + 1) - w + 1
            /\ n < w => ret = << >>

\* C21 witness: four scores below the threshold scanned with a window of 2 give the three
\* overlapping events 0..1, 1..2 and 2..3.
C21_Witness ==
    /\ SpikeScanned
    /\ call.window_size = Given(2)
    /\ Len(df.rows) = 4
    /\ NegativeRun(1, 4)
    /\ Len(ret) = 3
    /\ \A k \in 1..3 : ret[k].start_index = k - 1 /\ ret[k].end_index = k

(***************************************************************************)
(* Scans of a batch that grows (SpecStream)                                *)
(***************************************************************************)
\* df.iloc[:n]: the first n records of the batch
PrefixFrame(frame, n) == [columns |-> frame.columns, rows |-> SubSeq(frame.rows, 1, n)]

\* the window starts at which the spike scan of the batch emits
SpikeStarts(frame, window_size_arg, cfg) ==
    { a.start_index : a \in Range(detect_negative_spike(frame, window_size_arg, cfg)) }

\* the 0-based indices at which the drop scan of a batch in time order emits (the event
\* carries the instant of its index, and the k-th record has the instant k)
DropPositions(frame, drop_threshold) ==
    { a.timestamp - 1 : a \in Range(detect_sentiment_drop(frame, drop_threshold, "kept")) }

\* the window starts of the first n records: their windows lie within those records
SpikeStartsWithin(n, window_size_arg, cfg) ==
    0..(n - Or(window_size_arg, cfg.spike_window))

\* the indices the drop scan of the first n records reaches
DropIndicesWithin(n) == DropWindow..(n - DropWindow - 1)

\* the indices whose two ranges [i - window, i) and [i, i + window) lie within the first
\* n records: those the scan reaches, and n - window
DropRangesWithin(n) == DropWindow..(n - DropWindow)

\* the spike scan of the first n records and the one of the whole batch differ at a
\* window start of the first n records
SpikeScanAltered(frame, n, window_size_arg, cfg) ==
    SpikeStarts(PrefixFrame(frame, n), window_size_arg, cfg)
        # SpikeStarts(frame, window_size_arg, cfg) \cap SpikeStartsWithin(n, window_size_arg, cfg)

\* the drop scan of the first n records and the one of the whole batch differ at an
\* index whose ranges lie within the first n records
DropScanAltered(frame, n, drop_threshold) ==
    DropPositions(PrefixFrame(frame, n), drop_threshold)
        # DropPositions(frame, drop_threshold) \cap DropRangesWithin(n)

\* C22 as stated: the scans cannot be extended from a prefix: for the spike scan of this
\* alert system and for the drop scan there is a batch and a prefix of it such that the
\* records after the prefix change whether a window position lying wholly inside the
\* prefix emits an event.
C22_LaterRecordsAlterScannedWindows ==
    /\ \E frame \in StreamFrames, window_size \in WindowArgs :
          \E n \in 1..(Len(frame.rows) - 1) :
              SpikeScanAltered(frame, n, window_size, config)
    /\ \E frame \in StreamFrames, drop_threshold \in DropThresholdArgs :
          \E n \in 1..(Len(frame.rows) - 1) :
              DropScanAltered(frame, n, drop_threshold)

\* C22 amended: the records appended after a prefix of the ordered batch never change
\* whether the spike scan emits at a window start whose window lies inside the prefix, nor
\* whether the drop scan emits at an index the scan of the prefix reached (window <= i <=
\* n - window - 1).
C22_LaterRecordsLeaveScannedWindows ==
    /\ SpikeScanned =>
          \A n \in 1..(Len(df.rows) - 1) :
              SpikeStarts(PrefixFrame(df, n), call.window_size, config)
                  = { ret[k].start_index : k \in 1..Len(ret) }
                    \cap SpikeStartsWithin(n, call.window_size, config)
    /\ DropScanned =>
          \A n \in 1..(Len(df.rows) - 1) :
              DropPositions(PrefixFrame(df, n), call.drop_threshold)
                  = { ret[k].timestamp - 1 : k \in 1..Len(ret) } \cap DropIndicesWithin(n)

\* C22 witness: the drop scan of a batch of twelve records to which a thirteenth was
\* appended emits at index 5 and at a later index; the scan of the twelve emitted at
\* index 5 already.
C22_Witness ==
    /\ DropScanned
    /\ Len(df.rows) = 2 * DropWindow + 3
    /\ 5 \in DropPositions(PrefixFrame(df, 2 * DropWindow + 2), call.drop_threshold)
    /\ \E k, l \in 1..Len(ret) : ret[k].timestamp = 6 /\ ret[l].timestamp > 7

(***************************************************************************)
(* Overlapping phrases (SpecUrgency)                                       *)
(***************************************************************************)
NeedPhrase == << "n", "e", "e", "d" >>

UrgentNeedPhrase == UrgentPhrase \o << " " >> \o NeedPhrase

NowPhrase == << "n", "o", "w" >>

KnowWord == << "k", "n", "o", "w" >>

\* C23: overlapping phrases fire independently and their weights add: every configured
\* phrase occurring in the normalized body is listed, also inside another matched phrase
\* ("urgent" and "need" inside "urgent need") or inside a longer word ("now" inside
\* "know"); a body holding "urgent need" gets 15 + 12 + 8 = 35 before the cap, and the
\* body contributes the sum of the weights of all its phrases, of whatever category, up
\* to the cap.
C23_OverlappingPhrasesAdd ==
    Scored =>
        \A text \in { preprocess_text(call.body) }, listed \in { Range(ret.keywords) },
           matched \in { MatchedPhrases(call.body) } :
            /\ matched \subseteq listed
            /\ UrgentNeedPhrase \in matched =>
                  /\ { UrgentPhrase, UrgentNeedPhrase, NeedPhrase } \subseteq listed
                  /\ ret.score >= 35
            /\ text = UrgentNeedPhrase /\ MatchedPhrases(call.subject) = {} =>
                  /\ listed = { UrgentPhrase, UrgentNeedPhrase, NeedPhrase }
                  /\ ret.score = 35
            /\ TimesInText(text, KnowWord) > 0 => NowPhrase \in listed
            /\ ret.score >= Min(SumSeq([ i \in 1..Len(AllKeywords) |->
                                           IF AllKeywords[i].kw \in matched
                                           THEN AllKeywords[i].w ELSE 0 ]), 70)

\* C23 witness: the body is "urgent need" and the subject matches nothing: three phrases
\* are listed and the score is 35.
C23_Witness ==
    /\ Scored
    /\ preprocess_text(call.body) = UrgentNeedPhrase
    /\ MatchedPhrases(call.subject) = {}
    /\ Len(ret.keywords) = 3
    /\ ret.score = 35

(***************************************************************************)
(* The normal form of a text (SpecUrgency)                                 *)
(***************************************************************************)
Normalized == call.op = "preprocess_text" /\ call.text.kind = "str"

\* the characters of s that are not whitespace
NonWhitespace(s) == SelectSeq(s, LAMBDA c : c \notin Whitespace)

\* s holds no whitespace but single spaces, none of them first or last; it is
\* what preprocess_text returns for it; and it holds the non-whitespace characters of the
\* text given, lower-cased, in their order
SingleSpacedAndStable(s) ==
    /\ \A i \in 1..Len(s) : s[i] \in Whitespace => s[i] = " "
    /\ \A i \in 1..(Len(s) - 1) : ~(s[i] = " " /\ s[i + 1] = " ")
    /\ s # << >> => s[1] # " " /\ s[Len(s)] # " "
    /\ preprocess_text(Str(s)) = s
    /\ NonWhitespace(s) = Lower(NonWhitespace(call.text.chars))

\* C24 as stated: for every str, preprocess_text returns a str with no upper-case letter,
\* no two consecutive whitespace characters, no whitespace other than a single space and
\* no leading or trailing space; normalizing the result again returns it unchanged; the
\* non-whitespace characters keep their order.
C24_NormalFormNoUpperCase ==
    Normalized =>
        /\ \A i \in 1..Len(ret) : ret[i] \notin Range(UpperCase) \cup { UncasedCapital }
        /\ SingleSpacedAndStable(ret)

\* C24 amended: the same, the result holding no upper-case letter that has a lower-case
\* form; an upper-case letter without one stays as it is.
C24_NormalFormLowerCased ==
    Normalized =>
        /\ \A i \in 1..Len(ret) : ret[i] \notin Range(UpperCase)
        /\ \A i \in 1..Len(ret) :
              ret[i] = UncasedCapital => UncasedCapital \in Range(call.text.chars)
        /\ SingleSpacedAndStable(ret)

\* C24 witness: of a tab, "A", a space and the letter without lower-case form, "a", one
\* space and that letter are returned.
C24_Witness ==
    /\ Normalized
    /\ call.text.chars = << "\t", "A", " ", UncasedCapital >>
    /\ ret = << "a", " ", UncasedCapital >>

(***************************************************************************)
(* The previous range of the drop scan (SpecDrop)                          *)
(***************************************************************************)
\* C25: at every scanned index i (window <= i <= N-window-1) of detect_sentiment_drop,
\* each of the `window` rolling averages of the previous range [i-window, i) is defined,
\* the mean of a full window of scores: none is skipped, and the previous average of an
\* event is the mean of `window` values.
C25_PreviousRangeDefined ==
    DropScanned /\ Len(df.rows) >= 2 * DropWindow =>
        \A sorted \in { SortValues(df.rows, "timestamp", call.ties) } :
        \A rolling_avg \in { RollingMean(Column(sorted, "compound_score"), DropWindow) } :
        \A i \in DropWindow..(Len(sorted) - DropWindow - 1) :
          /\ \A j \in (i - DropWindow + 1)..i : rolling_avg[j] # NaNFrac
          /\ DropAlert(sorted, rolling_avg, i, DropWindow).previous_avg
                = Frac(SumSeq([ m \in 1..DropWindow |-> RollSum(sorted, i - DropWindow + m) ]),
                       DropWindow * DropWindow)

(***************************************************************************)
(* The latest record and the drop scan (SpecStream)                        *)
(***************************************************************************)
\* the position in df of the record the time sort of the call puts last
LatestPosition ==
    ArgSort(Column(df.rows, "timestamp"), call.ties)[Len(df.rows)]

\* the batch with the score of that record replaced
WithLatestScore(score) ==
    [df EXCEPT !.rows[LatestPosition]["compound_score"] = score]

OtherScores == { -100, -70, 50 }

\* C26: the score of the last record in timestamp order never influences
\* detect_sentiment_drop: a batch differing only in that score gives the same Drop
\* events, and a batch of exactly 2*window records gives no event at all.
C26_LatestScoreNotRead ==
    DropScanned /\ df.rows # << >> =>
        /\ \A score \in OtherScores :
              detect_sentiment_drop(WithLatestScore(score), call.drop_threshold, call.ties)
                = ret
        /\ Len(df.rows) = 2 * DropWindow => ret = << >>

\* C26 witness: a scan of more than 2*window records that emits a drop at the last
\* scanned index, the latest record scoring opposite to the one before it.
C26_Witness ==
    /\ DropScanned
    /\ Len(df.rows) > 2 * DropWindow
    /\ ret # << >>
    /\ \A sorted \in { SortValues(df.rows, "timestamp", call.ties) } :
          /\ ret[Len(ret)].timestamp = sorted[Len(sorted) - DropWindow]["timestamp"]
          /\ sorted[Len(sorted)]["compound_score"] = 50
          /\ sorted[Len(sorted) - 1]["compound_score"] = -70

(***************************************************************************)
(* Explicit arguments (SpecAlerts)                                         *)
(***************************************************************************)
\* flag_high_priority_comments ran on a batch of comments, each with its text and score
FlaggedComments == Flagged /\ "text" \in df.columns

\* C27: an explicitly passed argument always overrides the configured default: for every
\* explicit threshold t, 0 included, flag_high_priority_comments returns exactly the
\* records with compound_score < t, and for every explicit window_size
\* detect_negative_spike uses that window size, not config['spike_window'].
C27_ExplicitArgumentOverrides ==
    /\ FlaggedComments /\ call.threshold # Omitted => ReturnsRecordsBelow(call.threshold[1])
    /\ call.op = "detect_negative_spike" /\ "compound_score" \in df.columns
          /\ call.window_size # Omitted =>
            \A k \in 1..Len(ret) :
                ret[k].end_index - ret[k].start_index + 1 = call.window_size[1]

\* the same for the arguments other than 0
ExplicitNonZeroArgumentOverrides ==
    /\ FlaggedComments /\ call.threshold \notin { Omitted, Given(0) } =>
            ReturnsRecordsBelow(call.threshold[1])
    /\ SpikeScanned /\ call.window_size # Omitted =>
            /\ UsedWindow = call.window_size[1]
            /\ \A i \in 0..(Len(df.rows) - UsedWindow) : EmitsSpikeAt(i) <=> WindowQualifies(i)
            /\ \A k \in 1..Len(ret) :
                  ret[k].end_index - ret[k].start_index + 1 = call.window_size[1]

\* a spike scan given the window 0 that returns events
ZeroWindowScanEmits ==
    /\ call.op = "detect_negative_spike"
    /\ call.window_size = Given(0)
    /\ ret # << >>

(***************************************************************************)
(* The tiers one field alone can reach (SpecUrgency)                       *)
(***************************************************************************)
\* C28: the caps bound the tier reachable from one field alone: a record whose subject
\* matches no phrase has urgency_score <= 70 and is never Critical, a record whose body
\* matches no phrase has urgency_score <= 30 and is never High or Critical, and a Critical
\* record always has a subject contribution of at least 6.
C28_CapsBoundTiers ==
    /\ Scored =>
          /\ MatchedPhrases(call.subject) = {} => ret.score <= 70
          /\ MatchedPhrases(call.body) = {} => ret.score <= 30
    /\ Detected =>
          \A subject \in { DictGet(call.email_data, "subject", Str(<< >>)) },
             body \in { DictGet(call.email_data, "body", Str(<< >>)) } :
            /\ MatchedPhrases(subject) = {} =>
                  /\ ret.urgency_score <= 70
                  /\ ret.urgency_level # "Critical"
            /\ MatchedPhrases(body) = {} =>
                  /\ ret.urgency_score <= 30
                  /\ ret.urgency_level \notin { "High", "Critical" }
            /\ ret.urgency_level = "Critical" => Min(PhraseSum(subject), 30) >= 6

\* C28 witness: a record without a subject whose body alone exceeds its cap: it scores 70
\* and is High.
C28_Witness ==
    /\ Detected
    /\ "subject" \notin DOMAIN call.email_data
    /\ PhraseSum(call.email_data["body"]) > 70
    /\ ret.urgency_score = 70
    /\ ret.urgency_level = "High"

\* a record whose body matches nothing and whose subject reaches its cap is Medium, and a
\* record with both fields at their caps is Critical
SubjectAloneMedium ==
    /\ Detected
    /\ MatchedPhrases(DictGet(call.email_data, "body", Str(<< >>))) = {}
    /\ ret.urgency_score = 30
    /\ ret.urgency_level = "Medium"

BothFieldsCritical == Detected /\ ret.urgency_level = "Critical"

(***************************************************************************)
(* What makes a report critical (SpecReport)                               *)
(***************************************************************************)
\* C29: in every report of generate_alert_report, has_critical_alerts is true exactly when
\* the report holds at least one Spike event: Spike events always have severity High,
\* Drop and SegmentAlert events always Medium, so no number of drops or segment alerts
\* alone makes the report critical.
C29_CriticalIffSpike ==
    Reported =>
        /\ ret.has_critical_alerts <=> AlertsOfType("Negative Spike Detected") # << >>
        /\ \A k \in 1..Len(ret.alerts) :
              /\ ret.alerts[k].alert_type = "Negative Spike Detected"
                    => ret.alerts[k].severity = "High"
              /\ ret.alerts[k].alert_type \in { "Sentiment Drop Detected", "Platform Alert" }
                    => ret.alerts[k].severity = "Medium"
              /\ ret.alerts[k].alert_type \in { "Negative Spike Detected",
                                                "Sentiment Drop Detected", "Platform Alert" }

\* C29 witness: a report holding drops and segment alerts and no spike: it is not critical.
C29_Witness ==
    /\ Reported
    /\ AlertsOfType("Negative Spike Detected") = << >>
    /\ Len(AlertsOfType("Sentiment Drop Detected")) >= 2
    /\ AlertsOfType("Platform Alert") # << >>
    /\ ~ret.has_critical_alerts

(***************************************************************************)
(* The alert operations leave the batch and the alert system alone         *)
(* (SpecAlerts)                                                            *)
(***************************************************************************)
BatchAndSystemUnchanged == UNCHANGED << df, config, alerts >>

\* what the last call returned is what the same call returns on the batch and the
\* configuration as they are now
RepeatedCallReturnsSame ==
    /\ call.op = "detect_negative_spike" =>
          ret = detect_negative_spike(df, call.window_size, config)
    /\ call.op = "detect_sentiment_drop" =>
          ret = detect_sentiment_drop(df, call.drop_threshold, call.ties)
    /\ call.op = "analyze_platform_alerts" =>
          ret = analyze_platform_alerts(df, call.negative_threshold_pct)
    /\ call.op = "flag_high_priority_comments" =>
          \E ties \in TieOrders :
              ret = flag_high_priority_comments(df, call.threshold, config, ties)
    /\ call.op = "generate_alert_report" =>
          ret = generate_alert_report(df, call.include_high_priority, config,
                                      call.time_ties, call.score_ties)

\* the batch holds the fields it was given and no rolling_avg or high_priority field; the
\* alert system's list of alerts is empty as constructed
BatchAsGiven ==
    /\ df \in PriorityFrames \cup DegradedFrames
    /\ { "rolling_avg", "high_priority" } \cap df.columns = {}
    /\ alerts = << >>

\* C30: every alert operation (detect_negative_spike, detect_sentiment_drop,
\* analyze_platform_alerts, flag_high_priority_comments, generate_alert_report) leaves the
\* caller's batch unchanged (same rows, same order, no rolling_avg or high_priority field
\* added) and leaves config and the alerts list unchanged, so that after any sequence of
\* calls a repeated call on the same batch returns the same events.
C30_AlertOperationsReadOnly ==
    [][BatchAndSystemUnchanged]_vars /\ [](BatchAsGiven /\ RepeatedCallReturnsSame)

\* C30 witness: a report with events of the three kinds has been built, and the batch is
\* as it was given.
C30_Witness ==
    /\ Reported
    /\ AlertsOfType("Negative Spike Detected") # << >>
    /\ AlertsOfType("Sentiment Drop Detected") # << >>
    /\ AlertsOfType("Platform Alert") # << >>
    /\ df.columns = AlertColumns
    /\ alerts = << >>

(***************************************************************************)
(* Specifications                                                          *)
(***************************************************************************)
\* no UrgencyDetector has been constructed
NoDetector ==
    /\ urgency_keywords = << >>
    /\ time_keywords = << >>
    /\ action_keywords = << >>
    /\ thresholds = URGENCY_THRESHOLDS
    /\ hashseed = 0

\* the urgency detector scoring texts
InitUrgency ==
    /\ InitDetector
    /\ config = ALERT_SETTINGS
    /\ alerts = << >>
    /\ df = NoFrame
    /\ results_df = NoFrame
    /\ call = NoCall
    /\ ret = NoReturn

NextUrgency ==
    \/ PreprocessText
    \/ CalculateKeywordScore
    \/ CalculateUrgencyScore
    \/ ClassifyUrgencyLevel
    \/ DetectUrgency
    \/ Return

SpecUrgency == InitUrgency /\ [][NextUrgency]_vars

\* the alert system scanning one batch for spikes
InitSpike ==
    /\ NoDetector
    /\ InitAlertSystem
    /\ df \in SpikeFrames
    /\ results_df = NoFrame
    /\ call = NoCall
    /\ ret = NoReturn

NextSpike == DetectNegativeSpike \/ Return

SpecSpike == InitSpike /\ [][NextSpike]_vars

\* the alert system scanning one batch for drops
InitDrop ==
    /\ NoDetector
    /\ config = ALERT_SETTINGS
    /\ alerts = << >>
    /\ df \in DropFrames
    /\ results_df = NoFrame
    /\ call = NoCall
    /\ ret = NoReturn

NextDrop == DetectSentimentDrop \/ Return

SpecDrop == InitDrop /\ [][NextDrop]_vars

\* the alert system scanning one batch by platform
InitSegment ==
    /\ NoDetector
    /\ config = ALERT_SETTINGS
    /\ alerts = << >>
    /\ df \in SegmentFrames
    /\ results_df = NoFrame
    /\ call = NoCall
    /\ ret = NoReturn

NextSegment == AnalyzePlatformAlerts \/ Return

SpecSegment == InitSegment /\ [][NextSegment]_vars

\* the alert system reporting on one batch
InitReport ==
    /\ NoDetector
    /\ InitAlertSystem
    /\ df \in ReportFrames
    /\ results_df = NoFrame
    /\ call = NoCall
    /\ ret = NoReturn

NextReport == GenerateAlertReport \/ Return

SpecReport == InitReport /\ [][NextReport]_vars

\* main.py ranking one batch of analysed emails
InitRank ==
    /\ NoDetector
    /\ config = ALERT_SETTINGS
    /\ alerts = << >>
    /\ df = NoFrame
    /\ results_df \in ResultFrames
    /\ call = NoCall
    /\ ret = NoReturn

NextRank == SaveResults \/ Return

SpecRank == InitRank /\ [][NextRank]_vars

\* ranking and drop detection on batches that may lack the timestamp field
InitTimeless ==
    /\ NoDetector
    /\ config = ALERT_SETTINGS
    /\ alerts = << >>
    /\ df \in TimelessFrames
    /\ results_df \in TimelessResultFrames
    /\ call = NoCall
    /\ ret = NoReturn

NextTimeless == DetectSentimentDrop \/ SaveResults \/ Return

SpecTimeless == InitTimeless /\ [][NextTimeless]_vars

\* the urgency detector constructed from a configuration with any threshold table
InitConfigured ==
    /\ \E th \in ThresholdTables : InitDetectorFrom(th)
    /\ config = ALERT_SETTINGS
    /\ alerts = << >>
    /\ df = NoFrame
    /\ results_df = NoFrame
    /\ call = NoCall
    /\ ret = NoReturn

NextConfigured == ClassifyUrgencyLevel \/ DetectUrgency \/ Return

SpecConfigured == InitConfigured /\ [][NextConfigured]_vars

\* the alert system given batches that lack fields
InitDegraded ==
    /\ NoDetector
    /\ InitAlertSystem
    /\ df \in DegradedFrames
    /\ results_df = NoFrame
    /\ call = NoCall
    /\ ret = NoReturn

NextDegraded ==
    \/ DetectNegativeSpike
    \/ DetectSentimentDrop
    \/ AnalyzePlatformAlerts
    \/ GenerateAlertReport
    \/ Return

SpecDegraded == InitDegraded /\ [][NextDegraded]_vars

\* the detector over tables that enter a phrase twice
InitDuplicated ==
    /\ \E tables \in ConfiguredTables : InitDetectorWith(tables)
    /\ InitAlertSystem
    /\ df = NoFrame
    /\ results_df = NoFrame
    /\ call = NoCall
    /\ ret = NoReturn

NextDuplicated ==
    \/ CalculateUrgencyScore
    \/ DetectUrgency
    \/ Return

SpecDuplicated == InitDuplicated /\ [][NextDuplicated]_vars

\* a batch scored by workers sharing one detector
InitBatch ==
    /\ InitDetector
    /\ config = ALERT_SETTINGS
    /\ alerts = << >>
    /\ df \in BatchFrames
    /\ results_df = NoFrame
    /\ call = NoCall
    /\ ret = NoReturn

NextBatch ==
    \/ AnalyzeEmails
    \/ WorkerScore
    \/ WorkerReport
    \/ ReturnResults

SpecBatch == InitBatch /\ [][NextBatch]_vars

\* the alert system flagging the high-priority comments of one batch
InitPriority ==
    /\ NoDetector
    /\ InitAlertSystem
    /\ df \in PriorityFrames
    /\ results_df = NoFrame
    /\ call = NoCall
    /\ ret = NoReturn

NextPriority == FlagHighPriorityComments \/ Return

SpecPriority == InitPriority /\ [][NextPriority]_vars

\* the alert system scanning a batch that grows
InitStream ==
    /\ NoDetector
    /\ InitAlertSystem
    /\ df \in StreamSeeds
    /\ results_df = NoFrame
    /\ call = NoCall
    /\ ret = NoReturn

NextStream ==
    \/ AppendRecord
    \/ DetectNegativeSpike
    \/ DetectSentimentDrop
    \/ Return

SpecStream == InitStream /\ [][NextStream]_vars

\* the alert system given one batch, every operation callable again and again
InitAlerts ==
    /\ NoDetector
    /\ InitAlertSystem
    /\ df \in PriorityFrames \cup DegradedFrames
    /\ results_df = NoFrame
    /\ call = NoCall
    /\ ret = NoReturn

NextAlerts ==
    \/ DetectNegativeSpike
    \/ FlagHighPriorityComments
    \/ DetectSentimentDrop
    \/ AnalyzePlatformAlerts
    \/ GenerateAlertReport
    \/ Return

SpecAlerts == InitAlerts /\ [][NextAlerts]_vars

====
